---- MODULE Spec2Model ----
(***************************************************************************)
(* higgsfield-js: the retry engine (utils/retry.ts), the typed errors      *)
(* (errors.ts) and the response interceptor (client.ts), Config            *)
(* (config.ts), the JobSet poller (models/JobSet.ts), the submission       *)
(* operations of the clients and the request-keyed poll of the v2 client,  *)
(* as state machines.                                                      *)
(*                                                                         *)
(* SpecRetry    is one execution of retryWithBackoff(fn, config).          *)
(* SpecPoll     is one execution of JobSet.poll(client, config).           *)
(* SpecClassify is the response interceptor on one failed request.         *)
(* SpecConfig   is one call of new Config(config).                         *)
(* SpecSubmit   is one call of generate, createSoulId or subscribe.        *)
(* SpecPollV2   is one execution of JobSet.pollV2 or pollV2Request.        *)
(* SpecSoulPoll is one execution of SoulId.poll(client, config).           *)
(* SpecPolls    is one execution of JobSet.poll or of SoulId.poll.         *)
(* SpecSingleton is concurrent calls of subscribe on the v2 singleton.     *)
(* SpecCalls    is two interleaved calls of generate on one client.        *)
(* SpecPollLive is the loop of the four polls, under fairness.             *)
(* SpecClient   is createHiggsfieldClient, configure and reset around one  *)
(*              call of subscribe on the v2 singleton.                     *)
(* Times are integers (milliseconds).                                      *)
(***************************************************************************)
EXTENDS Integers, Sequences, FiniteSets, TLC

VARIABLES
    \* ---- retryWithBackoff(fn, config) ----
    maxRetries,      \* config.maxRetries
    backoff,         \* config.backoff
    maxBackoff,      \* config.maxBackoff
    viaInterceptor,  \* fn is a request on the client's axios instance
    attempt,         \* the loop counter of retryWithBackoff
    lastError,       \* the local lastError
    delay,           \* the local delay of the current sleep
    rpc,             \* where the call stands: attempt, sleep, returned, thrown
    rthrown,         \* the failure retryWithBackoff raised
    calls,           \* invocations of fn so far
    sleeps,          \* sleeps completed so far
    allRetryable,    \* every failure of fn so far was a retryable one
    rresult,         \* the invocation whose value retryWithBackoff returned (0: none)
    \* ---- JobSet.poll(client, config) ----
    jobSetId,        \* JobSet.id
    jobs,            \* JobSet.jobs: the statuses of the jobs, in order
    pollClient,      \* "axios": a bare AxiosInstance; "client": HiggsfieldClient.client
    pollInterval,    \* config.pollInterval
    maxPollTime,     \* config.maxPollTime
    now,             \* Date.now()
    startTime,       \* the local startTime
    ppc,             \* where the poll stands: idle, check, query, sleep, returned, thrown
    pthrown,         \* the failure poll raised
    queries,         \* status queries issued so far
    psleeps,         \* sleeps of pollInterval completed so far
    perror,          \* the error the catch block of poll caught last
    phist,           \* the kind of outcome of each status query, in order
    lastResponse,    \* response.data.jobs of the last successful status query
    \* ---- the response interceptor, on one failed transport call ----
    cin,             \* the error the transport rejected with
    cout,            \* the error the interceptor's handler threw
    cpc,             \* request: the call is in flight; rejected: the handler has run
    \* ---- new Config(config) ----
    cfgArg,          \* the argument: the fields the caller gave
    cfg,             \* the fields of the Config object
    cfgpc,           \* new: before the constructor; constructed; failed
    cfgError,         \* the message of the Error validate threw
    \* ---- a submission operation of the client ----
    op,              \* generate, createSoulId, subscribe, subscribeJobSet
    withPolling,     \* the flag the caller gave: absent, true, false
    fpc,             \* submit, polling, returned, thrown
    submitted,       \* response.data of the submission call
    entity,          \* the entity the operation holds (JobSet, SoulId, V2Response)
    fqueries,        \* status queries the operation's poller issued
    fthrown,          \* the failure the operation raised
    \* ---- JobSet.pollV2(client, config) and pollV2Request(client, config, id) ----
    v2variant,       \* pollV2 or pollV2Request
    v2jobs,          \* JobSet.jobs (pollV2)
    v2resp,          \* response.data of the last status query answered
    v2returned,      \* the V2Response pollV2Request returned
    v2last,          \* the outcome of the last status query: none, response, failure
    v2pc,            \* check, query, sleep, returned, thrown
    v2now,           \* Date.now()
    v2start,         \* the local startTime
    v2maxPollTime,   \* config.maxPollTime
    v2queries,       \* status queries issued so far
    v2thrown,        \* the failure the poll raised
    v2onlyCanceled,   \* every status query so far was answered with status canceled
    \* ---- SoulId.poll(client, config) ----
    soulStatus,      \* SoulId.status
    soulResp,        \* response.data.status of the last status query answered
    soulLast,        \* the outcome of the last status query: none, response, failure
    spc,             \* check, query, sleep, returned, thrown
    snow,            \* Date.now()
    sstart,          \* the local startTime
    sinterval,       \* config.pollInterval
    smaxPollTime,    \* config.maxPollTime
    squeries,        \* status queries issued so far
    ssleeps,         \* sleeps of pollInterval completed so far
    sthrown,          \* the failure the poll raised
    sonly5xx,         \* (ghost) every status query so far failed with a transport 5xx
    \* ---- the singleton of the v2 client and the subscribe calls on it ----
    env,               \* process.env: HF_CREDENTIALS, HF_API_KEY, HF_API_SECRET
    globalConfig,      \* the module-level globalConfig: undefined or Config
    globalClient,      \* the module-level globalClient, with the credentials of its headers
    globalCredentials, \* the module-level globalCredentials
    global0,           \* the three of them when the calls began
    tpc,               \* per call: idle, posted, settled, thrown
    tmissing,          \* per call: it found the singleton's credentials missing
    tthrown,           \* per call: the name of the error it raised
    posts,             \* per call: submission requests sent
    inits,              \* initialisations of the singleton by subscribe
    \* ---- two interleaved calls of generate on one client ----
    clock,             \* Date.now(), the one clock of the process
    heap,              \* the JobSet objects allocated so far: the jobs of each
    jobSetOf,          \* per call: its local jobSet, a reference into heap (0: none yet)
    callpc,            \* per call: submit, check, query, sleep, returned, thrown
    callStart,         \* per call: the startTime of its poll
    callTimer,         \* per call: when the timer of its sleep fires
    callQueries,       \* per call: status queries issued
    callThrown,        \* per call: the failure it raised
    callGot,           \* (ghost) per call: the jobs of its own last response
    callMaxPollTime,    \* this.config.maxPollTime
    \* ---- the loop the four polls share, for its termination ----
    lkind,             \* JobSet.poll, SoulId.poll, JobSet.pollV2 or pollV2Request
    lpc,               \* check, query, sleep, returned, timedout, failed
    lnow,              \* Date.now()
    lstart,            \* startTime
    linterval,         \* config.pollInterval
    lmaxPollTime,       \* config.maxPollTime
    \* ---- createHiggsfieldClient, configure, reset and one subscribe call ----
    window,            \* typeof globalThis.window !== 'undefined'
    instances,         \* axios instances created so far by initializeClient
    apiCalls,          \* calls of createHiggsfieldClient, configure and reset so far
    lastCall,          \* the last of them: its name, its argument, the error it threw
    subpc,             \* the subscribe call: idle, posting, backoff, polling, returned, thrown
    subAttempt,        \* attempt of its retryWithBackoff
    subStarted,        \* (ghost) the globalClient and globalConfig it passed line 262 with
    subUsing,          \* (ghost) the transport and config of its latest request
    subThrown          \* the name of the error it raised

retryVars == <<maxRetries, backoff, maxBackoff, viaInterceptor, attempt, lastError,
               delay, rpc, rthrown, calls, sleeps, allRetryable, rresult>>
pollVars  == <<jobSetId, jobs, pollClient, pollInterval, maxPollTime, now, startTime, ppc,
               pthrown, queries, psleeps, perror, phist, lastResponse>>
classVars == <<cin, cout, cpc>>
configVars == <<cfgArg, cfg, cfgpc, cfgError>>
facadeVars == <<op, withPolling, fpc, submitted, entity, fqueries, fthrown>>
v2Vars == <<v2variant, v2jobs, v2resp, v2returned, v2last, v2pc, v2now, v2start, v2maxPollTime, v2queries, v2thrown, v2onlyCanceled>>
soulVars == <<soulStatus, soulResp, soulLast, spc, snow, sstart, sinterval, smaxPollTime, squeries, ssleeps, sthrown, sonly5xx>>
singletonVars == <<env, globalConfig, globalClient, globalCredentials, global0, tpc, tmissing, tthrown, posts, inits>>
callVars == <<clock, heap, jobSetOf, callpc, callStart, callTimer, callQueries, callThrown, callGot, callMaxPollTime>>
liveVars == <<lkind, lpc, lnow, lstart, linterval, lmaxPollTime>>
clientVars == <<window, instances, apiCalls, lastCall, subpc, subAttempt, subStarted, subUsing, subThrown>>
vars      == <<retryVars, pollVars, classVars, configVars, facadeVars, v2Vars, soulVars, singletonVars, callVars, liveVars, clientVars>>

-----------------------------------------------------------------------------
(* Bounds of the model *)

\* backoff ranges over 500 * (0..MaxBackoffSteps)
MaxBackoffSteps == 2
\* jobs of a poll response: 0..MaxJobs
MaxJobs == 2
\* a status query takes 0..MaxLatency ms
MaxLatency == 1
\* a timer fires 0..MaxLag ms late
MaxLag == 0
\* maxPollTime ranges over 1..MaxPollTimeChoice
MaxPollTimeChoice == 2
\* entries of a detail list: 0..MaxEntries
MaxEntries == 2
\* a duration given to new Config ranges over -1..MaxDuration
MaxDuration == 1
\* status queries of the poller of a submission operation: at most MaxStatusQueries
MaxStatusQueries == 2
\* images of a v2 status response: 0..MaxImages
MaxImages == 2
\* concurrent calls of subscribe: MaxTasks
MaxTasks == 2

\* config.pollInterval of the two interleaved calls
CallPollInterval == 1
\* calls of createHiggsfieldClient, configure and reset: MaxApiCalls
MaxApiCalls == 3

(* Constants of the program *)

\* Config.validate: maxRetries cannot be greater than 5
MaxRetriesLimit == 5
\* Math.random() * 1000
JitterRange == 1000
\* error.response.status >= 500
ServerErrorFloor == 500
\* config.ts: the defaults of Config (ms, but for maxRetries)
DefaultTimeout == 120000
DefaultMaxRetries == 3
DefaultRetryBackoff == 1000
DefaultRetryMaxBackoff == 60000
DefaultPollInterval == 2000
DefaultMaxPollTime == 300000

-----------------------------------------------------------------------------
(* Response bodies.  response.data is a body: its detail field and the   *)
(* rest of it.  A detail is undefined, a string, a list of entries, or     *)
(* anything else (an object).  An entry has a msg and, unless hasLoc is    *)
(* FALSE, a loc: the path segments.                                        *)

NoDetail        == [tag |-> "undefined", text |-> "", entries |-> <<>>]
TextDetail(t)   == [tag |-> "string", text |-> t, entries |-> <<>>]
ListDetail(es)  == [tag |-> "list", text |-> "", entries |-> es]
ObjectDetail    == [tag |-> "object", text |-> "", entries |-> <<>>]
Entry(loc, msg) == [hasLoc |-> TRUE, loc |-> loc, msg |-> msg]
EntryNoLoc(msg) == [hasLoc |-> FALSE, loc |-> <<>>, msg |-> msg]

Body(detail, rest) == [detail |-> detail, rest |-> rest]
NoBody == Body(NoDetail, "")

\* The bodies of the failed responses of SpecRetry and SpecPoll.
Bodies == {NoBody, Body(TextDetail("Bad input"), "")}

(* Errors.  One record shape for every error object:                       *)
(*   kind     the class: AxiosError, Error, TypeError, or a class of        *)
(*            errors.ts                                                     *)
(*   code     AxiosError.code                                               *)
(*   status   AxiosError.response.status (0: no response) or                *)
(*            APIError.statusCode (0: undefined)                            *)
(*   data     AxiosError.response.data or APIError.responseData             *)
(*   message  Error.message                                                 *)
(*   details  ValidationError.details, BadInputError.details                *)
(*            (NoDetail: undefined)                                         *)
(*   msg      the limit a TimeoutError's message embeds                     *)
(*   seq      the invocation that raised it (the identity of the object)    *)

ErrorObject(kind, message) ==
    [kind |-> kind, code |-> "", status |-> 0, data |-> NoBody, message |-> message,
     details |-> NoDetail, msg |-> 0, seq |-> 0]

NoError == ErrorObject("none", "")

\* no response body read yet
NoResponse == [id |-> "", status |-> ""]

\* no status response read yet
NoV2Response ==
    [status |-> "", images |-> <<>>, video |-> [present |-> FALSE, url |-> ""]]

\* A string is the sequence of its segments between colons: "" is <<>>,
\* "key" is <<"key">>, "id:secret" is <<"id", "secret">>.
\* `${a}:${b}` of two strings that are not empty
template(a, b) == a \o b
\* str.split(':')
split(str) == str

\* undefined, and a Credentials object { apiKey, apiSecret }
Undefined == [set |-> FALSE, apiKey |-> <<>>, apiSecret |-> <<>>]
Credentials(apiKey, apiSecret) == [set |-> TRUE, apiKey |-> apiKey, apiSecret |-> apiSecret]

\* process.env with none of the variables set
NoEnv == [HF_CREDENTIALS |-> <<>>, HF_API_KEY |-> <<>>, HF_API_SECRET |-> <<>>]

AxiosErr(code, status, data) ==
    [ErrorObject("AxiosError", "Request failed") EXCEPT
        !.code = code, !.status = status, !.data = data]

\* What the transport (axios) rejects a request with.
NetworkFailures ==
    {AxiosErr(c, 0, NoBody) : c \in {"ECONNRESET", "ETIMEDOUT", "ENOTFOUND", "ECONNABORTED"}}
ClientErrorResponses ==
    {AxiosErr("ERR_BAD_REQUEST", s, b) : s \in {400, 401, 403, 404, 422}, b \in Bodies}
ServerErrorResponses ==
    {AxiosErr("ERR_BAD_RESPONSE", s, NoBody) : s \in {500, 503}}
TransportFailures == NetworkFailures \cup ClientErrorResponses \cup ServerErrorResponses

\* A failure that is no AxiosError (thrown by the operation itself).
PlainError == ErrorObject("Error", "Network error")

\* What err.loc.join('.') throws when err.loc is undefined.
TypeError == ErrorObject("TypeError", "Cannot read properties of undefined")

RECURSIVE JoinStrings(_, _)
\* Array.prototype.join
JoinStrings(seq, sep) ==
    IF Len(seq) = 0 THEN ""
    ELSE IF Len(seq) = 1 THEN seq[1]
    ELSE seq[1] \o sep \o JoinStrings(Tail(seq), sep)

\* errors.ts: `${err.loc.join('.')}: ${err.msg}`
EntryMessage(err) == JoinStrings(err.loc, ".") \o ": " \o err.msg

\* (mutant) the entries are joined without the space
DetailMessage_Comma(detail) ==
    IF detail.tag = "list"
    THEN JoinStrings([i \in 1..Len(detail.entries) |-> EntryMessage(detail.entries[i])], ",")
    ELSE IF detail.tag = "string" THEN detail.text
    ELSE "Check your input params"

\* errors.ts: message, in the constructors of ValidationError and BadInputError
DetailMessage(detail) ==
    IF detail.tag = "list"
    THEN JoinStrings([i \in 1..Len(detail.entries) |-> EntryMessage(detail.entries[i])], ", ")
    ELSE IF detail.tag = "string" THEN detail.text
    ELSE "Check your input params"

\* errors.ts: details, in the constructors of ValidationError and BadInputError
DetailsKept(detail) == IF detail.tag = "list" THEN detail ELSE NoDetail

\* errors.ts: err.loc.join of an entry without loc throws
MapThrows(detail) ==
    detail.tag = "list" /\ \E i \in 1..Len(detail.entries) : ~detail.entries[i].hasLoc

\* errors.ts: the typed errors (what `new X(...)` completes with)
AuthenticationError(message) == ErrorObject("AuthenticationError", message)
NotEnoughCreditsError ==
    [ErrorObject("NotEnoughCreditsError", "Not enough credits") EXCEPT !.status = 403]
ValidationError(detail) ==
    IF MapThrows(detail) THEN TypeError
    ELSE [ErrorObject("ValidationError", DetailMessage(detail)) EXCEPT
            !.status = 422, !.details = DetailsKept(detail)]
BadInputError(detail) ==
    IF MapThrows(detail) THEN TypeError
    ELSE [ErrorObject("BadInputError", DetailMessage(detail)) EXCEPT
            !.status = 400, !.details = DetailsKept(detail)]
APIError(message, statusCode, responseData) ==
    [ErrorObject("APIError", message) EXCEPT !.status = statusCode, !.data = responseData]
TimeoutError(limit) ==
    [ErrorObject("TimeoutError", "Polling exceeded maximum time of " \o ToString(limit) \o "ms")
        EXCEPT !.msg = limit]

\* client.ts: the response interceptor's rejection handler
Interceptor(error) ==
    IF error.status = 401 THEN AuthenticationError("Invalid API credentials")
    ELSE IF error.status = 403 THEN NotEnoughCreditsError
    ELSE IF error.status = 422 THEN ValidationError(error.data.detail)
    ELSE IF error.status = 400 THEN BadInputError(error.data.detail)
    ELSE IF error.status # 0 THEN APIError(error.message, error.status, error.data)
    ELSE error

\* What a request on the client's axios instance rejects with.
ClientFailures == {Interceptor(e) : e \in TransportFailures \cup {PlainError}}

\* axios.isAxiosError(error) / error instanceof AxiosError
isAxiosError(error) == error.kind = "AxiosError"

-----------------------------------------------------------------------------
(* Config *)

\* config.ts: the numeric fields of Config
DurationFields == {"timeout", "retryBackoff", "retryMaxBackoff", "pollInterval", "maxPollTime"}
ConfigFields   == DurationFields \cup {"maxRetries"}

\* config.ts: the field initialisers
Defaults ==
    [timeout |-> DefaultTimeout, maxRetries |-> DefaultMaxRetries,
     retryBackoff |-> DefaultRetryBackoff, retryMaxBackoff |-> DefaultRetryMaxBackoff,
     pollInterval |-> DefaultPollInterval, maxPollTime |-> DefaultMaxPollTime]

\* The arguments of new Config: any subset of the fields, each a number.
ClientConfigs ==
    {[k \in DOMAIN d \cup DOMAIN r |-> IF k \in DOMAIN r THEN r[k] ELSE d[k]] :
        d \in UNION {[S -> -1..MaxDuration] : S \in SUBSET DurationFields},
        r \in UNION {[S -> -1..(MaxRetriesLimit + 1)] : S \in SUBSET {"maxRetries"}}}

\* Object.assign(this, config)
Assign(this, config) ==
    [k \in DOMAIN this |-> IF k \in DOMAIN config THEN config[k] ELSE this[k]]

\* (mutant) validate without the upper limit of maxRetries
validate_NoUpperLimit(this) ==
    IF this.timeout <= 0 THEN "timeout must be positive"
    ELSE IF this.maxRetries < 0 THEN "maxRetries must be non-negative"
    ELSE IF this.pollInterval <= 0 THEN "pollInterval must be positive"
    ELSE IF this.maxPollTime <= 0 THEN "maxPollTime must be positive"
    ELSE ""

\* Config.validate: the message of the Error it throws, "" when it returns
validate(this) ==
    IF this.timeout <= 0 THEN "timeout must be positive"
    ELSE IF this.maxRetries < 0 THEN "maxRetries must be non-negative"
    ELSE IF this.maxRetries > MaxRetriesLimit THEN "maxRetries cannot be greater than 5"
    ELSE IF this.pollInterval <= 0 THEN "pollInterval must be positive"
    ELSE IF this.maxPollTime <= 0 THEN "maxPollTime must be positive"
    ELSE ""

\* A call of new Config(config) (no other operation runs).
ConfigInit ==
    /\ cfgArg \in ClientConfigs
    /\ cfg = Defaults
    /\ cfgpc = "new"
    /\ cfgError = ""
    /\ maxRetries = 0 /\ backoff = 0 /\ maxBackoff = 0 /\ viaInterceptor = FALSE
    /\ attempt = 0 /\ lastError = NoError /\ delay = 0 /\ rpc = "off"
    /\ rthrown = NoError /\ calls = 0 /\ sleeps = 0 /\ allRetryable = TRUE /\ rresult = 0
    /\ jobSetId = "" /\ jobs = <<>> /\ pollClient = "axios" /\ pollInterval = 1
    /\ maxPollTime = 1
    /\ now = 0 /\ startTime = 0 /\ ppc = "off" /\ pthrown = NoError /\ queries = 0
    /\ psleeps = 0 /\ perror = NoError /\ phist = <<>> /\ lastResponse = <<>>
    /\ cin = NoError /\ cout = NoError /\ cpc = "off"
    /\ op = "none" /\ withPolling = "absent" /\ fpc = "off" /\ submitted = NoResponse
    /\ entity = NoResponse /\ fqueries = 0 /\ fthrown = NoError
    /\ v2variant = "pollV2" /\ v2jobs = <<>> /\ v2resp = NoV2Response /\ v2returned = NoV2Response
    /\ v2last = "none" /\ v2pc = "off" /\ v2now = 0 /\ v2start = 0 /\ v2maxPollTime = 1
    /\ v2queries = 0 /\ v2thrown = NoError /\ v2onlyCanceled = TRUE
    /\ soulStatus = "queued" /\ soulResp = "" /\ soulLast = "none" /\ spc = "off" /\ snow = 0
    /\ sstart = 0 /\ sinterval = 1 /\ smaxPollTime = 1 /\ squeries = 0 /\ ssleeps = 0
    /\ sthrown = NoError /\ sonly5xx = TRUE
    /\ env = NoEnv /\ globalConfig = "undefined" /\ globalClient = Undefined
    /\ globalCredentials = Undefined /\ global0 = <<"undefined", Undefined, Undefined>>
    /\ tpc = <<>> /\ tmissing = <<>> /\ tthrown = <<>> /\ posts = <<>> /\ inits = 0
    /\ clock = 0 /\ heap = <<>> /\ jobSetOf = <<>> /\ callpc = <<>> /\ callStart = <<>>
    /\ callTimer = <<>> /\ callQueries = <<>> /\ callThrown = <<>> /\ callGot = <<>>
    /\ callMaxPollTime = 1
    /\ lkind = "JobSet.poll" /\ lpc = "off" /\ lnow = 0 /\ lstart = 0 /\ linterval = 1
    /\ lmaxPollTime = 1
    /\ window = FALSE /\ instances = 0 /\ apiCalls = 0 /\ lastCall = <<>> /\ subpc = "off"
    /\ subAttempt = 0 /\ subStarted = <<>> /\ subUsing = <<>> /\ subThrown = ""

\* Config.constructor: Object.assign(this, config); this.validate()
NewConfig ==
    /\ cfgpc = "new"
    /\ cfg' = Assign(Defaults, cfgArg)
    /\ cfgError' = validate(cfg')
    /\ cfgpc' = IF cfgError' = "" THEN "constructed" ELSE "failed"
    /\ UNCHANGED cfgArg

-----------------------------------------------------------------------------
(* retryWithBackoff *)

RECURSIVE Pow2(_)
Pow2(n) == IF n <= 0 THEN 1 ELSE 2 * Pow2(n - 1)

Min(a, b) == IF a <= b THEN a ELSE b

\* Math.random() * 1000, at the ends and the middle of [0, 1000)
Jitters == {0, 1, JitterRange \div 2, JitterRange - 1}

\* retry.ts: isRetryable, computed for an AxiosError
isRetryable(error) ==
    \/ error.code = "ECONNRESET"
    \/ error.code = "ETIMEDOUT"
    \/ error.code = "ENOTFOUND"
    \/ (error.status # 0 /\ error.status >= ServerErrorFloor)

\* (mutant) lastError keeps the first failure
Caught_First(prev, error) == IF prev.kind = "none" THEN error ELSE prev

\* retry.ts: lastError = error as Error
Caught(prev, error) == error

\* retry.ts: the failure leaves the loop at once (throw error)
ThrowsAtOnce(error) == isAxiosError(error) /\ ~isRetryable(error)

\* (mutant) the last attempt is taken one attempt early
Exhausted_OneEarly(n, limit) == n + 1 >= limit

\* retry.ts: the attempt that is not retried
Exhausted(n, limit) == n = limit

\* (mutant) 2 * attempt in place of 2 ^ attempt
Delay_Doubling(b, n, jitter, cap) == Min(b * (2 * n) + jitter, cap)

\* retry.ts: delay
Delay(b, n, jitter, cap) == Min(b * Pow2(n) + jitter, cap)

\* The failures fn can raise.
Failures == IF viaInterceptor THEN ClientFailures ELSE TransportFailures \cup {PlainError}

\* The retryable failures of the specification: connection reset, connection
\* timeout, DNS resolution failure, or a response with status >= 500 (as an
\* AxiosError, or as the APIError the interceptor makes of it).
RetryableFailure(e) ==
    \/ e.code \in {"ECONNRESET", "ETIMEDOUT", "ENOTFOUND"}
    \/ (e.kind \in {"AxiosError", "APIError"} /\ e.status >= 500)

\* (mutant) the value of fn() is awaited and dropped: the loop body ends
onFulfilled_GoesOn(k) == [pc |-> "attempt", result |-> k]

\* return await fn(): the value of invocation k is the value returned
onFulfilled(k) == [pc |-> "returned", result |-> k]

\* The arguments of retryWithBackoff, before its first attempt (no poll runs).
RetryInit ==
    /\ maxRetries \in 0..MaxRetriesLimit
    /\ backoff \in {500 * i : i \in 0..MaxBackoffSteps}
    /\ maxBackoff \in {300, 4000, 60000}
    /\ viaInterceptor \in BOOLEAN
    /\ attempt = 0
    /\ lastError = NoError
    /\ delay = 0
    /\ rpc = "attempt"
    /\ rthrown = NoError
    /\ calls = 0
    /\ sleeps = 0
    /\ allRetryable = TRUE
    /\ rresult = 0
    /\ jobSetId = "" /\ jobs = <<>> /\ pollClient = "axios" /\ pollInterval = 1
    /\ maxPollTime = 1
    /\ now = 0 /\ startTime = 0 /\ ppc = "off" /\ pthrown = NoError /\ queries = 0
    /\ psleeps = 0 /\ perror = NoError /\ phist = <<>> /\ lastResponse = <<>>
    /\ cin = NoError /\ cout = NoError /\ cpc = "off"
    /\ cfgArg = <<>> /\ cfg = Defaults /\ cfgpc = "off" /\ cfgError = ""
    /\ op = "none" /\ withPolling = "absent" /\ fpc = "off" /\ submitted = NoResponse
    /\ entity = NoResponse /\ fqueries = 0 /\ fthrown = NoError
    /\ v2variant = "pollV2" /\ v2jobs = <<>> /\ v2resp = NoV2Response /\ v2returned = NoV2Response
    /\ v2last = "none" /\ v2pc = "off" /\ v2now = 0 /\ v2start = 0 /\ v2maxPollTime = 1
    /\ v2queries = 0 /\ v2thrown = NoError /\ v2onlyCanceled = TRUE
    /\ soulStatus = "queued" /\ soulResp = "" /\ soulLast = "none" /\ spc = "off" /\ snow = 0
    /\ sstart = 0 /\ sinterval = 1 /\ smaxPollTime = 1 /\ squeries = 0 /\ ssleeps = 0
    /\ sthrown = NoError /\ sonly5xx = TRUE
    /\ env = NoEnv /\ globalConfig = "undefined" /\ globalClient = Undefined
    /\ globalCredentials = Undefined /\ global0 = <<"undefined", Undefined, Undefined>>
    /\ tpc = <<>> /\ tmissing = <<>> /\ tthrown = <<>> /\ posts = <<>> /\ inits = 0
    /\ clock = 0 /\ heap = <<>> /\ jobSetOf = <<>> /\ callpc = <<>> /\ callStart = <<>>
    /\ callTimer = <<>> /\ callQueries = <<>> /\ callThrown = <<>> /\ callGot = <<>>
    /\ callMaxPollTime = 1
    /\ lkind = "JobSet.poll" /\ lpc = "off" /\ lnow = 0 /\ lstart = 0 /\ linterval = 1
    /\ lmaxPollTime = 1
    /\ window = FALSE /\ instances = 0 /\ apiCalls = 0 /\ lastCall = <<>> /\ subpc = "off"
    /\ subAttempt = 0 /\ subStarted = <<>> /\ subUsing = <<>> /\ subThrown = ""

\* return await fn()
RetryReturn ==
    /\ rpc = "attempt"
    /\ attempt <= maxRetries
    /\ calls' = calls + 1
    /\ rpc' = onFulfilled(calls').pc
    /\ rresult' = onFulfilled(calls').result
    /\ UNCHANGED <<maxRetries, backoff, maxBackoff, viaInterceptor, attempt, lastError,
                   delay, rthrown, sleeps, allRetryable>>

\* fn() rejects with e: the catch block
RetryCatch ==
    /\ rpc = "attempt"
    /\ attempt <= maxRetries
    /\ \E f \in Failures, jitter \in Jitters :
        LET e == [f EXCEPT !.seq = calls + 1] IN
        /\ calls' = calls + 1
        /\ lastError' = Caught(lastError, e)
        /\ allRetryable' = (allRetryable /\ RetryableFailure(e))
        /\ IF Exhausted(attempt, maxRetries) \/ ThrowsAtOnce(e)
           THEN /\ rpc' = "thrown"
                /\ rthrown' = IF Exhausted(attempt, maxRetries) THEN lastError' ELSE e
                /\ UNCHANGED delay
           ELSE /\ rpc' = "sleep"
                /\ delay' = Delay(backoff, attempt, jitter, maxBackoff)
                /\ UNCHANGED rthrown
    /\ UNCHANGED <<maxRetries, backoff, maxBackoff, viaInterceptor, attempt, sleeps, rresult>>

\* the timer of the sleep fires; attempt++
RetryWake ==
    /\ rpc = "sleep"
    /\ sleeps' = sleeps + 1
    /\ attempt' = attempt + 1
    /\ rpc' = "attempt"
    /\ UNCHANGED <<maxRetries, backoff, maxBackoff, viaInterceptor, lastError, delay,
                   rthrown, calls, allRetryable, rresult>>

-----------------------------------------------------------------------------
(* JobSet and JobSet.poll *)

\* types.ts: JobStatus
JobStatus == {"queued", "in_progress", "completed", "failed", "nsfw", "canceled"}

\* The jobs arrays of a submission or status response.
JobLists == UNION {[1..n -> JobStatus] : n \in 0..MaxJobs}

\* (mutant) every in place of some
checkStatus_Every(js, status) == Len(js) > 0 /\ \A i \in 1..Len(js) : js[i] = status

\* JobSet.checkStatus: this.jobs.some(job => job.status === status)
checkStatus(js, status) == \E i \in 1..Len(js) : js[i] = status

isCompleted(js) == checkStatus(js, "completed")
isNsfw(js)      == checkStatus(js, "nsfw")
isFailed(js)    == checkStatus(js, "failed")
isCanceled(js)  == checkStatus(js, "canceled")

\* (mutant) no response stops the poll
isSettled_Never(js) == FALSE

\* (mutant) the break forgets the failed and canceled sets
isSettled_Success(js) == isCompleted(js) \/ isNsfw(js)

\* JobSet.poll: the condition of the break
isSettled(js) == isCompleted(js) \/ isNsfw(js) \/ isFailed(js) \/ isCanceled(js)

\* (mutant) only status 500 goes on polling
isServerError_Only500(error) == isAxiosError(error) /\ error.status = ServerErrorFloor

\* (mutant) every failed response goes on polling
isServerError_AnyResponse(error) == isAxiosError(error) /\ error.status # 0

\* (mutant) no failure goes on polling
isServerError_Never(error) == FALSE

\* JobSet.poll: the catch block goes on polling
isServerError(error) ==
    isAxiosError(error) /\ error.status # 0 /\ error.status >= ServerErrorFloor

\* (mutant) the deadline is passed at the limit
DeadlinePassed_AtLimit(t, start, limit) == t - start >= limit

\* JobSet.poll: the deadline check at the head of the loop
DeadlinePassed(t, start, limit) == t - start > limit

\* (mutant) the message embeds the elapsed time
PollTimeoutError_Elapsed(limit, elapsed) == TimeoutError(elapsed)

\* JobSet.poll: the TimeoutError of the deadline check
PollTimeoutError(limit, elapsed) == TimeoutError(limit)

\* The failures a status query can raise on the client handed to poll.
PollFailures ==
    IF pollClient = "client" THEN ClientFailures ELSE TransportFailures \cup {PlainError}

\* The terminal statuses of the specification.
TerminalStatus == {"completed", "failed", "nsfw", "canceled"}
AnyTerminal(js) == \E i \in 1..Len(js) : js[i] \in TerminalStatus

\* The kind of a response, of a failure: what phist records.
ResponseKind(js) == IF AnyTerminal(js) THEN "settled" ELSE "pending"
FailureKind(e) ==
    IF e.kind = "AxiosError" /\ e.status >= 500 THEN "transport5xx"
    ELSE IF e.kind = "APIError" /\ e.status >= 500 THEN "classified5xx"
    ELSE "other"

\* JobSetData: { id, jobs }
JobSetOf(id, js) == [id |-> id, jobs |-> js]

\* response.data.id of a status response: an id the JobSet does not have, to
\* tell an id taken from the response from the id that was kept
AnsweredId == "job-set-1-as-answered"

\* (mutant) the jobs of the response are added to the jobs held
applyResponse_Merged(this, data) == [this EXCEPT !.jobs = this.jobs \o data.jobs]

\* JobSet.poll: this.jobs = response.data.jobs
applyResponse(this, data) == [this EXCEPT !.jobs = data.jobs]

\* (mutant) a failed query empties the jobs
onRejected_Cleared(js, error) == <<>>

\* JobSet.poll: the catch block assigns nothing to this.jobs
onRejected(js, error) == js

\* The jobs of a submission response: none or one, in any status. (The status
\* responses that follow carry up to MaxJobs.)
SubmittedJobs == {js \in JobLists : Len(js) <= 1}

\* (mutant) the loop is entered only for a JobSet that is not settled
loopCondition_UntilSettled(js) == ~isSettled(js)

\* JobSet.poll: while (true)
loopCondition(js) == TRUE

\* A JobSet built from a submission response, and the arguments of poll (no
\* retryWithBackoff runs).
PollInit ==
    /\ jobSetId = "job-set-1"
    /\ jobs \in SubmittedJobs
    /\ pollClient \in {"axios", "client"}
    /\ pollInterval \in {1, 2}
    /\ maxPollTime \in 1..MaxPollTimeChoice
    /\ now \in {0, 1}
    /\ startTime = 0
    /\ ppc = "idle"
    /\ pthrown = NoError
    /\ queries = 0
    /\ psleeps = 0
    /\ perror = NoError
    /\ phist = <<>>
    /\ lastResponse = <<>>
    /\ maxRetries = 0 /\ backoff = 0 /\ maxBackoff = 0 /\ viaInterceptor = FALSE
    /\ attempt = 0 /\ lastError = NoError /\ delay = 0 /\ rpc = "off"
    /\ rthrown = NoError /\ calls = 0 /\ sleeps = 0 /\ allRetryable = TRUE /\ rresult = 0
    /\ cin = NoError /\ cout = NoError /\ cpc = "off"
    /\ cfgArg = <<>> /\ cfg = Defaults /\ cfgpc = "off" /\ cfgError = ""
    /\ op = "none" /\ withPolling = "absent" /\ fpc = "off" /\ submitted = NoResponse
    /\ entity = NoResponse /\ fqueries = 0 /\ fthrown = NoError
    /\ v2variant = "pollV2" /\ v2jobs = <<>> /\ v2resp = NoV2Response /\ v2returned = NoV2Response
    /\ v2last = "none" /\ v2pc = "off" /\ v2now = 0 /\ v2start = 0 /\ v2maxPollTime = 1
    /\ v2queries = 0 /\ v2thrown = NoError /\ v2onlyCanceled = TRUE
    /\ soulStatus = "queued" /\ soulResp = "" /\ soulLast = "none" /\ spc = "off" /\ snow = 0
    /\ sstart = 0 /\ sinterval = 1 /\ smaxPollTime = 1 /\ squeries = 0 /\ ssleeps = 0
    /\ sthrown = NoError /\ sonly5xx = TRUE
    /\ env = NoEnv /\ globalConfig = "undefined" /\ globalClient = Undefined
    /\ globalCredentials = Undefined /\ global0 = <<"undefined", Undefined, Undefined>>
    /\ tpc = <<>> /\ tmissing = <<>> /\ tthrown = <<>> /\ posts = <<>> /\ inits = 0
    /\ clock = 0 /\ heap = <<>> /\ jobSetOf = <<>> /\ callpc = <<>> /\ callStart = <<>>
    /\ callTimer = <<>> /\ callQueries = <<>> /\ callThrown = <<>> /\ callGot = <<>>
    /\ callMaxPollTime = 1
    /\ lkind = "JobSet.poll" /\ lpc = "off" /\ lnow = 0 /\ lstart = 0 /\ linterval = 1
    /\ lmaxPollTime = 1
    /\ window = FALSE /\ instances = 0 /\ apiCalls = 0 /\ lastCall = <<>> /\ subpc = "off"
    /\ subAttempt = 0 /\ subStarted = <<>> /\ subUsing = <<>> /\ subThrown = ""

\* const startTime = Date.now()
PollStart ==
    /\ ppc = "idle"
    /\ startTime' = now
    /\ ppc' = IF loopCondition(jobs) THEN "check" ELSE "returned"
    /\ UNCHANGED <<jobSetId, jobs, pollClient, pollInterval, maxPollTime, now, pthrown, queries,
                   psleeps, perror, phist, lastResponse>>

\* the head of the loop: throw new TimeoutError(...)
PollTimeout ==
    /\ ppc = "check"
    /\ DeadlinePassed(now, startTime, maxPollTime)
    /\ ppc' = "thrown"
    /\ pthrown' = PollTimeoutError(maxPollTime, now - startTime)
    /\ UNCHANGED <<jobSetId, jobs, pollClient, pollInterval, maxPollTime, now, startTime, queries,
                   psleeps, perror, phist, lastResponse>>

\* client.get(this.pollingUrl) is issued
PollQuery ==
    /\ ppc = "check"
    /\ ~DeadlinePassed(now, startTime, maxPollTime)
    /\ ppc' = "query"
    /\ queries' = queries + 1
    /\ UNCHANGED <<jobSetId, jobs, pollClient, pollInterval, maxPollTime, now, startTime, pthrown,
                   psleeps, perror, phist, lastResponse>>

\* the status query resolves: this.jobs = response.data.jobs
PollResponse ==
    /\ ppc = "query"
    /\ \E d \in 0..MaxLatency, r \in JobLists :
        /\ now' = now + d
        /\ jobs' = applyResponse(JobSetOf(jobSetId, jobs), JobSetOf(AnsweredId, r)).jobs
        /\ jobSetId' = applyResponse(JobSetOf(jobSetId, jobs), JobSetOf(AnsweredId, r)).id
        /\ lastResponse' = r
        /\ phist' = Append(phist, ResponseKind(r))
        /\ ppc' = IF isSettled(jobs') THEN "returned" ELSE "sleep"
    /\ UNCHANGED <<pollClient, pollInterval, maxPollTime, startTime, pthrown, queries,
                   psleeps, perror>>

\* the status query rejects: the catch block
PollCatch ==
    /\ ppc = "query"
    /\ \E d \in 0..MaxLatency, f \in PollFailures :
        LET e == [f EXCEPT !.seq = queries] IN
        /\ now' = now + d
        /\ perror' = e
        /\ jobs' = onRejected(jobs, e)
        /\ phist' = Append(phist, FailureKind(e))
        /\ IF isServerError(e)
           THEN ppc' = "sleep" /\ UNCHANGED pthrown
           ELSE ppc' = "thrown" /\ pthrown' = e
    /\ UNCHANGED <<jobSetId, pollClient, pollInterval, maxPollTime, startTime, queries,
                   psleeps, lastResponse>>

\* the timer of pollInterval fires
PollWake ==
    /\ ppc = "sleep"
    /\ \E lag \in 0..MaxLag : now' = now + pollInterval + lag
    /\ psleeps' = psleeps + 1
    /\ ppc' = IF loopCondition(jobs) THEN "check" ELSE "returned"
    /\ UNCHANGED <<jobSetId, jobs, pollClient, pollInterval, maxPollTime, startTime, pthrown,
                   queries, perror, phist, lastResponse>>

-----------------------------------------------------------------------------
(* The response interceptor on one failed transport call *)

\* The entries a server puts in a detail list.
EntryChoices ==
    {Entry(<<"body", "params", "batch_size">>, "Input should be 1 or 4"),
     Entry(<<"body", "params", "prompt">>, "Field required"),
     Entry(<<"strength">>, "Must be between 0 and 1"),
     EntryNoLoc("Invalid input")}

\* The details a server puts in a body.
DetailPayloads ==
    {NoDetail, ObjectDetail, TextDetail("Invalid input parameter"), TextDetail("")}
    \cup {ListDetail(es) : es \in UNION {[1..n -> EntryChoices] : n \in 0..MaxEntries}}

\* The failed transport calls the interceptor's handler is given.
RejectedCalls ==
    {AxiosErr(c, 0, NoBody) : c \in {"ECONNRESET", "ECONNABORTED"}}
    \cup {PlainError}
    \cup {AxiosErr("ERR_BAD_REQUEST", st, Body(d, r)) :
            st \in {400, 401, 403, 404, 422}, d \in DetailPayloads,
            r \in {"", "Internal server error"}}
    \cup {AxiosErr("ERR_BAD_RESPONSE", st, Body(d, r)) :
            st \in {500, 503}, d \in DetailPayloads, r \in {"", "Internal server error"}}

\* A request on the client's axios instance that the transport rejects (no
\* retryWithBackoff and no poll run).
ClassifyInit ==
    /\ cin \in RejectedCalls
    /\ cout = NoError
    /\ cpc = "request"
    /\ maxRetries = 0 /\ backoff = 0 /\ maxBackoff = 0 /\ viaInterceptor = FALSE
    /\ attempt = 0 /\ lastError = NoError /\ delay = 0 /\ rpc = "off"
    /\ rthrown = NoError /\ calls = 0 /\ sleeps = 0 /\ allRetryable = TRUE /\ rresult = 0
    /\ jobSetId = "" /\ jobs = <<>> /\ pollClient = "axios" /\ pollInterval = 1
    /\ maxPollTime = 1
    /\ now = 0 /\ startTime = 0 /\ ppc = "off" /\ pthrown = NoError /\ queries = 0
    /\ psleeps = 0 /\ perror = NoError /\ phist = <<>> /\ lastResponse = <<>>
    /\ cfgArg = <<>> /\ cfg = Defaults /\ cfgpc = "off" /\ cfgError = ""
    /\ op = "none" /\ withPolling = "absent" /\ fpc = "off" /\ submitted = NoResponse
    /\ entity = NoResponse /\ fqueries = 0 /\ fthrown = NoError
    /\ v2variant = "pollV2" /\ v2jobs = <<>> /\ v2resp = NoV2Response /\ v2returned = NoV2Response
    /\ v2last = "none" /\ v2pc = "off" /\ v2now = 0 /\ v2start = 0 /\ v2maxPollTime = 1
    /\ v2queries = 0 /\ v2thrown = NoError /\ v2onlyCanceled = TRUE
    /\ soulStatus = "queued" /\ soulResp = "" /\ soulLast = "none" /\ spc = "off" /\ snow = 0
    /\ sstart = 0 /\ sinterval = 1 /\ smaxPollTime = 1 /\ squeries = 0 /\ ssleeps = 0
    /\ sthrown = NoError /\ sonly5xx = TRUE
    /\ env = NoEnv /\ globalConfig = "undefined" /\ globalClient = Undefined
    /\ globalCredentials = Undefined /\ global0 = <<"undefined", Undefined, Undefined>>
    /\ tpc = <<>> /\ tmissing = <<>> /\ tthrown = <<>> /\ posts = <<>> /\ inits = 0
    /\ clock = 0 /\ heap = <<>> /\ jobSetOf = <<>> /\ callpc = <<>> /\ callStart = <<>>
    /\ callTimer = <<>> /\ callQueries = <<>> /\ callThrown = <<>> /\ callGot = <<>>
    /\ callMaxPollTime = 1
    /\ lkind = "JobSet.poll" /\ lpc = "off" /\ lnow = 0 /\ lstart = 0 /\ linterval = 1
    /\ lmaxPollTime = 1
    /\ window = FALSE /\ instances = 0 /\ apiCalls = 0 /\ lastCall = <<>> /\ subpc = "off"
    /\ subAttempt = 0 /\ subStarted = <<>> /\ subUsing = <<>> /\ subThrown = ""

\* the rejection handler of interceptors.response.use runs
Reject ==
    /\ cpc = "request"
    /\ cout' = Interceptor(cin)
    /\ cpc' = "rejected"
    /\ UNCHANGED cin

-----------------------------------------------------------------------------
(* The submission operations: HiggsfieldClient.generate, HiggsfieldClient.     *)
(* createSoulId, and subscribe of the v2 client in its two versions (the one   *)
(* that returns the V2Response, the one that returns a JobSet)                 *)

Operations == {"generate", "createSoulId", "subscribe", "subscribeJobSet"}

\* response.data of a submission: the identifier (request_id for v2; "" when
\* the body has none) and the status ("" when the body has none)
SubmitResponses == [id : {"", "req-1"}, status : {"", "queued", "completed"}]

\* the submission call is made inside retryWithBackoff
ThroughRetry(o) == o \in {"generate", "subscribe", "subscribeJobSet"}

\* options?.withPolling ?? true; withPolling = true in the destructuring
withPollingOrDefault(flag) == IF flag = "absent" THEN TRUE ELSE flag = "true"

\* the entity built from the submission response
Build(o, r) ==
    IF o = "subscribeJobSet"
    THEN [id |-> r.id, status |-> IF r.status = "" THEN "queued" ELSE r.status]
    ELSE r

\* (mutant) the poller runs whatever the flag
Polls_Always(o, flag, r) == TRUE

\* (mutant) the request_id of the submission response is not looked at
Polls_IgnoresRequestId(o, flag, r) == withPollingOrDefault(flag)

\* the condition under which the operation awaits its poller
Polls(o, flag, r) ==
    IF o = "subscribe" THEN withPollingOrDefault(flag) /\ r.id # ""
    ELSE withPollingOrDefault(flag)

\* the statuses at which the poller of the operation stops
StopsAt(o) ==
    IF o = "generate" THEN {"completed", "nsfw", "failed", "canceled"}
    ELSE IF o = "createSoulId" THEN {"completed", "failed"}
    ELSE {"completed", "nsfw", "failed"}

\* (mutant) a failed submission is swallowed and the poller runs
afterSubmission_Swallowed(retryEnds, pc) == IF retryEnds = "thrown" THEN "polling" ELSE pc

\* await of the submission call, with no try around it: its failure is the
\* failure of the operation
afterSubmission(retryEnds, pc) == IF retryEnds = "thrown" THEN "thrown" ELSE pc

\* A submission operation is called on a configured client.
SubmitInit ==
    /\ op \in Operations
    /\ withPolling \in {"absent", "true", "false"}
    /\ fpc = "submit"
    /\ submitted = NoResponse
    /\ entity = NoResponse
    /\ fqueries = 0
    /\ fthrown = NoError
    /\ maxRetries \in {0, 1, 2}
    /\ backoff = DefaultRetryBackoff /\ maxBackoff = DefaultRetryMaxBackoff
    /\ viaInterceptor = TRUE
    /\ attempt = 0 /\ lastError = NoError /\ delay = 0 /\ rpc = "attempt"
    /\ rthrown = NoError /\ calls = 0 /\ sleeps = 0 /\ allRetryable = TRUE /\ rresult = 0
    /\ jobSetId = "" /\ jobs = <<>> /\ pollClient = "axios" /\ pollInterval = 1
    /\ maxPollTime = 1
    /\ now = 0 /\ startTime = 0 /\ ppc = "off" /\ pthrown = NoError /\ queries = 0
    /\ psleeps = 0 /\ perror = NoError /\ phist = <<>> /\ lastResponse = <<>>
    /\ cin = NoError /\ cout = NoError /\ cpc = "off"
    /\ cfgArg = <<>> /\ cfg = Defaults /\ cfgpc = "off" /\ cfgError = ""
    /\ v2variant = "pollV2" /\ v2jobs = <<>> /\ v2resp = NoV2Response /\ v2returned = NoV2Response
    /\ v2last = "none" /\ v2pc = "off" /\ v2now = 0 /\ v2start = 0 /\ v2maxPollTime = 1
    /\ v2queries = 0 /\ v2thrown = NoError /\ v2onlyCanceled = TRUE
    /\ soulStatus = "queued" /\ soulResp = "" /\ soulLast = "none" /\ spc = "off" /\ snow = 0
    /\ sstart = 0 /\ sinterval = 1 /\ smaxPollTime = 1 /\ squeries = 0 /\ ssleeps = 0
    /\ sthrown = NoError /\ sonly5xx = TRUE
    /\ env = NoEnv /\ globalConfig = "undefined" /\ globalClient = Undefined
    /\ globalCredentials = Undefined /\ global0 = <<"undefined", Undefined, Undefined>>
    /\ tpc = <<>> /\ tmissing = <<>> /\ tthrown = <<>> /\ posts = <<>> /\ inits = 0
    /\ clock = 0 /\ heap = <<>> /\ jobSetOf = <<>> /\ callpc = <<>> /\ callStart = <<>>
    /\ callTimer = <<>> /\ callQueries = <<>> /\ callThrown = <<>> /\ callGot = <<>>
    /\ callMaxPollTime = 1
    /\ lkind = "JobSet.poll" /\ lpc = "off" /\ lnow = 0 /\ lstart = 0 /\ linterval = 1
    /\ lmaxPollTime = 1
    /\ window = FALSE /\ instances = 0 /\ apiCalls = 0 /\ lastCall = <<>> /\ subpc = "off"
    /\ subAttempt = 0 /\ subStarted = <<>> /\ subUsing = <<>> /\ subThrown = ""

\* the submission call resolves: the entity is built, the flag is read
SubmitReturn ==
    /\ fpc = "submit" /\ rpc = "attempt"
    /\ \E r \in SubmitResponses :
        /\ submitted' = r
        /\ entity' = Build(op, r)
        /\ fpc' = IF Polls(op, withPolling, r) THEN "polling" ELSE "returned"
    /\ calls' = calls + 1
    /\ rpc' = onFulfilled(calls').pc
    /\ rresult' = onFulfilled(calls').result
    /\ lastError' = NoError /\ delay' = 0
    /\ UNCHANGED <<op, withPolling, fqueries, fthrown, maxRetries, backoff, maxBackoff,
                   viaInterceptor, attempt, rthrown, sleeps, allRetryable>>

\* the submission call rejects inside retryWithBackoff
SubmitCatchRetried ==
    /\ fpc = "submit" /\ ThroughRetry(op)
    /\ RetryCatch
    /\ fpc' = afterSubmission(rpc', fpc)
    /\ fthrown' = rthrown'
    /\ UNCHANGED <<op, withPolling, submitted, entity, fqueries>>

\* the submission call rejects with nothing around it
SubmitCatchDirect ==
    /\ fpc = "submit" /\ ~ThroughRetry(op) /\ rpc = "attempt"
    /\ \E f \in Failures :
        LET e == [f EXCEPT !.seq = calls + 1] IN
        /\ lastError' = e
        /\ allRetryable' = (allRetryable /\ RetryableFailure(e))
        /\ rthrown' = e
        /\ fthrown' = e
    /\ calls' = calls + 1
    /\ rpc' = "thrown"
    /\ fpc' = afterSubmission(rpc', fpc)
    /\ UNCHANGED <<op, withPolling, submitted, entity, fqueries, maxRetries, backoff,
                   maxBackoff, viaInterceptor, attempt, delay, sleeps, rresult>>

\* the backoff timer of retryWithBackoff fires
SubmitWake ==
    /\ fpc = "submit"
    /\ RetryWake
    /\ UNCHANGED facadeVars

\* the poller's status query is answered
StatusQuery ==
    /\ fpc = "polling" /\ fqueries < MaxStatusQueries
    /\ fqueries' = fqueries + 1
    /\ \E st \in JobStatus :
        /\ entity' = [entity EXCEPT !.status = st]
        /\ fpc' = IF st \in StopsAt(op) THEN "returned" ELSE "polling"
    /\ UNCHANGED <<op, withPolling, submitted, fthrown, retryVars>>

\* the poller throws: its deadline has passed, or a status query failed
PollerThrows ==
    /\ fpc = "polling" /\ fqueries >= 1
    /\ fthrown' \in {TimeoutError(DefaultMaxPollTime), Interceptor(PlainError)}
    /\ fpc' = "thrown"
    /\ UNCHANGED <<op, withPolling, submitted, entity, fqueries, retryVars>>

-----------------------------------------------------------------------------
(* The request-keyed poll of the v2 client: JobSet.pollV2 and pollV2Request *)

\* the URLs of the images and of the video of a status response
ImageUrls == {"https://example.com/image1.jpg", "https://example.com/image2.jpg"}
VideoUrl  == "https://example.com/video.mp4"

\* v2Response.images: the urls of its entries, in order (<<>> also stands for
\* an absent list: both fail `images && images.length > 0`)
ImageLists ==
    {l \in UNION {[1..n -> ImageUrls] : n \in 0..MaxImages} :
        \A i, j \in 1..Len(l) : i # j => l[i] # l[j]}

\* v2Response.video: absent, or an object with its url ("" when it has none)
Videos == {[present |-> FALSE, url |-> ""], [present |-> TRUE, url |-> ""],
           [present |-> TRUE, url |-> VideoUrl]}

\* v2Response.status: a JobStatus, or "" when the body has none
V2Responses == [status : JobStatus \cup {""}, images : ImageLists, video : Videos]

\* types.ts: Results | null
NoResults == [present |-> FALSE, rawUrl |-> "", rawType |-> "", minUrl |-> "", minType |-> ""]
Results(rawUrl, rawType, minUrl, minType) ==
    [present |-> TRUE, rawUrl |-> rawUrl, rawType |-> rawType,
     minUrl |-> minUrl, minType |-> minType]

\* types.ts: Job
Job(id, status, results) == [id |-> id, status |-> status, results |-> results]

\* pollV2: v2Response.status || 'queued'
StatusOrQueued(status) == IF status = "" THEN "queued" ELSE status

\* (mutant) the video is looked at first
toResults_VideoFirst(r) ==
    IF r.video.present /\ r.video.url # ""
    THEN Results(r.video.url, "video", r.video.url, "video")
    ELSE IF Len(r.images) > 0
    THEN Results(r.images[1], "image", r.images[1], "image")
    ELSE NoResults

\* (mutant) a video that comes with images fills the min slot
toResults_VideoInMin(r) ==
    IF Len(r.images) > 0
    THEN IF r.video.present /\ r.video.url # ""
         THEN Results(r.images[1], "image", r.video.url, "video")
         ELSE Results(r.images[1], "image", r.images[1], "image")
    ELSE IF r.video.present /\ r.video.url # ""
    THEN Results(r.video.url, "video", r.video.url, "video")
    ELSE NoResults

\* pollV2: "Convert images/video to results format"
toResults(r) ==
    IF Len(r.images) > 0
    THEN Results(r.images[1], "image", r.images[1], "image")
    ELSE IF r.video.present /\ r.video.url # ""
    THEN Results(r.video.url, "video", r.video.url, "video")
    ELSE NoResults

\* (mutant) every job takes the status and the results of the response
UpdateJobs_All(js, r) ==
    IF Len(js) > 0
    THEN [i \in 1..Len(js) |-> Job(js[i].id, StatusOrQueued(r.status), toResults(r))]
    ELSE <<Job("req-1", StatusOrQueued(r.status), toResults(r))>>

\* pollV2: "Update the first job", or create one
UpdateJobs(js, r) ==
    IF Len(js) > 0
    THEN [js EXCEPT ![1] = Job(js[1].id, StatusOrQueued(r.status), toResults(r))]
    ELSE <<Job("req-1", StatusOrQueued(r.status), toResults(r))>>

\* (mutant) canceled stops the poll too
shouldStop_WithCanceled(status) ==
    status = "completed" \/ status = "nsfw" \/ status = "failed" \/ status = "canceled"

\* pollV2, pollV2Request: "Check if polling should stop"
shouldStop(status) == status = "completed" \/ status = "nsfw" \/ status = "failed"

\* The failures of a status query: on the v2 client (with its interceptor) and
\* on a bare axios instance.
V2Failures == ClientFailures \cup TransportFailures

\* The JobSets pollV2 is called on.
V2JobLists ==
    {<<>>, <<Job("req-1", "queued", NoResults)>>,
     <<Job("req-1", "queued", NoResults), Job("job-2", "queued", NoResults)>>}

\* pollV2 or pollV2Request has just taken startTime (no other operation runs).
V2Init ==
    /\ v2variant \in {"pollV2", "pollV2Request"}
    /\ v2jobs \in (IF v2variant = "pollV2" THEN V2JobLists ELSE {<<>>})
    /\ v2resp = NoV2Response
    /\ v2returned = NoV2Response
    /\ v2last = "none"
    /\ v2pc = "check"
    /\ v2now = 0
    /\ v2start = 0
    /\ v2maxPollTime \in 1..MaxPollTimeChoice
    /\ v2queries = 0
    /\ v2thrown = NoError
    /\ v2onlyCanceled = TRUE
    /\ maxRetries = 0 /\ backoff = 0 /\ maxBackoff = 0 /\ viaInterceptor = FALSE
    /\ attempt = 0 /\ lastError = NoError /\ delay = 0 /\ rpc = "off"
    /\ rthrown = NoError /\ calls = 0 /\ sleeps = 0 /\ allRetryable = TRUE /\ rresult = 0
    /\ jobSetId = "req-1" /\ jobs = <<>> /\ pollClient = "axios" /\ pollInterval = 1
    /\ maxPollTime = 1
    /\ now = 0 /\ startTime = 0 /\ ppc = "off" /\ pthrown = NoError /\ queries = 0
    /\ psleeps = 0 /\ perror = NoError /\ phist = <<>> /\ lastResponse = <<>>
    /\ cin = NoError /\ cout = NoError /\ cpc = "off"
    /\ cfgArg = <<>> /\ cfg = Defaults /\ cfgpc = "off" /\ cfgError = ""
    /\ op = "none" /\ withPolling = "absent" /\ fpc = "off" /\ submitted = NoResponse
    /\ entity = NoResponse /\ fqueries = 0 /\ fthrown = NoError
    /\ soulStatus = "queued" /\ soulResp = "" /\ soulLast = "none" /\ spc = "off" /\ snow = 0
    /\ sstart = 0 /\ sinterval = 1 /\ smaxPollTime = 1 /\ squeries = 0 /\ ssleeps = 0
    /\ sthrown = NoError /\ sonly5xx = TRUE
    /\ env = NoEnv /\ globalConfig = "undefined" /\ globalClient = Undefined
    /\ globalCredentials = Undefined /\ global0 = <<"undefined", Undefined, Undefined>>
    /\ tpc = <<>> /\ tmissing = <<>> /\ tthrown = <<>> /\ posts = <<>> /\ inits = 0
    /\ clock = 0 /\ heap = <<>> /\ jobSetOf = <<>> /\ callpc = <<>> /\ callStart = <<>>
    /\ callTimer = <<>> /\ callQueries = <<>> /\ callThrown = <<>> /\ callGot = <<>>
    /\ callMaxPollTime = 1
    /\ lkind = "JobSet.poll" /\ lpc = "off" /\ lnow = 0 /\ lstart = 0 /\ linterval = 1
    /\ lmaxPollTime = 1
    /\ window = FALSE /\ instances = 0 /\ apiCalls = 0 /\ lastCall = <<>> /\ subpc = "off"
    /\ subAttempt = 0 /\ subStarted = <<>> /\ subUsing = <<>> /\ subThrown = ""

\* the head of the loop: throw new TimeoutError(...)
V2Timeout ==
    /\ v2pc = "check"
    /\ DeadlinePassed(v2now, v2start, v2maxPollTime)
    /\ v2pc' = "thrown"
    /\ v2thrown' = TimeoutError(v2maxPollTime)
    /\ UNCHANGED <<v2variant, v2jobs, v2resp, v2returned, v2last, v2now, v2start,
                   v2maxPollTime, v2queries, v2onlyCanceled>>

\* client.get(pollingUrl) is issued
V2Query ==
    /\ v2pc = "check"
    /\ ~DeadlinePassed(v2now, v2start, v2maxPollTime)
    /\ v2pc' = "query"
    /\ v2queries' = v2queries + 1
    /\ UNCHANGED <<v2variant, v2jobs, v2resp, v2returned, v2last, v2now, v2start,
                   v2maxPollTime, v2thrown, v2onlyCanceled>>

\* the status query resolves
V2Answer ==
    /\ v2pc = "query"
    /\ \E r \in V2Responses :
        /\ v2resp' = r
        /\ v2onlyCanceled' = (v2onlyCanceled /\ r.status = "canceled")
        /\ IF v2variant = "pollV2"
           THEN /\ v2jobs' = UpdateJobs(v2jobs, r)
                /\ v2pc' = IF shouldStop(StatusOrQueued(r.status)) THEN "returned" ELSE "sleep"
                /\ UNCHANGED v2returned
           ELSE /\ v2pc' = IF shouldStop(r.status) THEN "returned" ELSE "sleep"
                /\ v2returned' = IF shouldStop(r.status) THEN r ELSE v2returned
                /\ UNCHANGED v2jobs
    /\ v2last' = "response"
    /\ UNCHANGED <<v2variant, v2now, v2start, v2maxPollTime, v2queries, v2thrown>>

\* the status query rejects: the catch block
V2Catch ==
    /\ v2pc = "query"
    /\ \E f \in V2Failures :
        IF isServerError(f)
        THEN v2pc' = "sleep" /\ UNCHANGED v2thrown
        ELSE v2pc' = "thrown" /\ v2thrown' = f
    /\ v2last' = "failure"
    /\ v2onlyCanceled' = FALSE
    /\ UNCHANGED <<v2variant, v2jobs, v2resp, v2returned, v2now, v2start, v2maxPollTime,
                   v2queries>>

\* the timer of pollInterval fires
V2Wake ==
    /\ v2pc = "sleep"
    /\ v2now' = v2now + 1
    /\ v2pc' = "check"
    /\ UNCHANGED <<v2variant, v2jobs, v2resp, v2returned, v2last, v2start, v2maxPollTime,
                   v2queries, v2thrown, v2onlyCanceled>>

-----------------------------------------------------------------------------
(* SoulId and SoulId.poll *)

\* types.ts: SoulIdStatus
SoulIdStatus == {"not_ready", "queued", "in_progress", "completed", "failed"}

\* (mutant) failed does not stop the poll
soulStops_CompletedOnly(status) == status = "completed"

\* SoulId.poll: this.isCompleted || this.isFailed
soulStops(status) == status = "completed" \/ status = "failed"

\* A SoulId built from a response, and poll has just taken startTime (no other
\* operation runs).
SoulInit ==
    /\ soulStatus \in {"not_ready", "queued", "completed"}
    /\ soulResp = ""
    /\ soulLast = "none"
    /\ spc = "check"
    /\ snow = 0
    /\ sstart = 0
    /\ sinterval \in {1, 2}
    /\ smaxPollTime \in 1..MaxPollTimeChoice
    /\ squeries = 0
    /\ ssleeps = 0
    /\ sthrown = NoError /\ sonly5xx = TRUE
    /\ maxRetries = 0 /\ backoff = 0 /\ maxBackoff = 0 /\ viaInterceptor = FALSE
    /\ attempt = 0 /\ lastError = NoError /\ delay = 0 /\ rpc = "off"
    /\ rthrown = NoError /\ calls = 0 /\ sleeps = 0 /\ allRetryable = TRUE /\ rresult = 0
    /\ jobSetId = "" /\ jobs = <<>> /\ pollClient = "axios" /\ pollInterval = 1
    /\ maxPollTime = 1
    /\ now = 0 /\ startTime = 0 /\ ppc = "off" /\ pthrown = NoError /\ queries = 0
    /\ psleeps = 0 /\ perror = NoError /\ phist = <<>> /\ lastResponse = <<>>
    /\ cin = NoError /\ cout = NoError /\ cpc = "off"
    /\ cfgArg = <<>> /\ cfg = Defaults /\ cfgpc = "off" /\ cfgError = ""
    /\ op = "none" /\ withPolling = "absent" /\ fpc = "off" /\ submitted = NoResponse
    /\ entity = NoResponse /\ fqueries = 0 /\ fthrown = NoError
    /\ v2variant = "pollV2" /\ v2jobs = <<>> /\ v2resp = NoV2Response /\ v2returned = NoV2Response
    /\ v2last = "none" /\ v2pc = "off" /\ v2now = 0 /\ v2start = 0 /\ v2maxPollTime = 1
    /\ v2queries = 0 /\ v2thrown = NoError /\ v2onlyCanceled = TRUE
    /\ env = NoEnv /\ globalConfig = "undefined" /\ globalClient = Undefined
    /\ globalCredentials = Undefined /\ global0 = <<"undefined", Undefined, Undefined>>
    /\ tpc = <<>> /\ tmissing = <<>> /\ tthrown = <<>> /\ posts = <<>> /\ inits = 0
    /\ clock = 0 /\ heap = <<>> /\ jobSetOf = <<>> /\ callpc = <<>> /\ callStart = <<>>
    /\ callTimer = <<>> /\ callQueries = <<>> /\ callThrown = <<>> /\ callGot = <<>>
    /\ callMaxPollTime = 1
    /\ lkind = "JobSet.poll" /\ lpc = "off" /\ lnow = 0 /\ lstart = 0 /\ linterval = 1
    /\ lmaxPollTime = 1
    /\ window = FALSE /\ instances = 0 /\ apiCalls = 0 /\ lastCall = <<>> /\ subpc = "off"
    /\ subAttempt = 0 /\ subStarted = <<>> /\ subUsing = <<>> /\ subThrown = ""

\* the head of the loop: throw new TimeoutError(...)
SoulTimeout ==
    /\ spc = "check"
    /\ DeadlinePassed(snow, sstart, smaxPollTime)
    /\ spc' = "thrown"
    /\ sthrown' = TimeoutError(smaxPollTime)
    /\ UNCHANGED <<soulStatus, soulResp, soulLast, snow, sstart, sinterval, smaxPollTime,
                   squeries, ssleeps, sonly5xx>>

\* client.get(this.pollingUrl) is issued
SoulQuery ==
    /\ spc = "check"
    /\ ~DeadlinePassed(snow, sstart, smaxPollTime)
    /\ spc' = "query"
    /\ squeries' = squeries + 1
    /\ UNCHANGED <<soulStatus, soulResp, soulLast, snow, sstart, sinterval, smaxPollTime,
                   ssleeps, sthrown, sonly5xx>>

\* the status query resolves: this.status = response.data.status
SoulAnswer ==
    /\ spc = "query"
    /\ \E d \in 0..MaxLatency, st \in SoulIdStatus :
        /\ snow' = snow + d
        /\ soulStatus' = st
        /\ soulResp' = st
        /\ spc' = IF soulStops(st) THEN "returned" ELSE "sleep"
    /\ soulLast' = "response"
    /\ sonly5xx' = FALSE
    /\ UNCHANGED <<sstart, sinterval, smaxPollTime, squeries, ssleeps, sthrown>>

\* the status query rejects: the catch block
SoulCatch ==
    /\ spc = "query"
    /\ \E d \in 0..MaxLatency, f \in ClientFailures \cup TransportFailures :
        /\ snow' = snow + d
        /\ sonly5xx' = (sonly5xx /\ FailureKind(f) = "transport5xx")
        /\ IF isServerError(f)
           THEN spc' = "sleep" /\ UNCHANGED sthrown
           ELSE spc' = "thrown" /\ sthrown' = f
    /\ soulLast' = "failure"
    /\ UNCHANGED <<soulStatus, soulResp, sstart, sinterval, smaxPollTime, squeries, ssleeps>>

\* the timer of pollInterval fires
SoulWake ==
    /\ spc = "sleep"
    /\ snow' = snow + sinterval
    /\ ssleeps' = ssleeps + 1
    /\ spc' = "check"
    /\ UNCHANGED <<soulStatus, soulResp, soulLast, sstart, sinterval, smaxPollTime,
                   squeries, sthrown, sonly5xx>>

\* One poll of a JobSet, or one poll of a SoulId: the state of PollInit, of
\* SoulInit.
PollsInit ==
    /\ \/ jobSetId = "job-set-1"
          /\ jobs \in SubmittedJobs
          /\ pollClient \in {"axios", "client"}
          /\ pollInterval \in {1, 2}
          /\ maxPollTime \in 1..MaxPollTimeChoice
          /\ now \in {0, 1}
          /\ startTime = 0
          /\ ppc = "idle"
          /\ pthrown = NoError
          /\ queries = 0
          /\ psleeps = 0
          /\ perror = NoError
          /\ phist = <<>>
          /\ lastResponse = <<>>
          /\ soulStatus = "queued" /\ soulResp = "" /\ soulLast = "none" /\ spc = "off" /\ snow = 0
          /\ sstart = 0 /\ sinterval = 1 /\ smaxPollTime = 1 /\ squeries = 0 /\ ssleeps = 0
          /\ sthrown = NoError /\ sonly5xx = TRUE
       \/ soulStatus \in {"not_ready", "queued", "completed"}
          /\ soulResp = ""
          /\ soulLast = "none"
          /\ spc = "check"
          /\ snow = 0
          /\ sstart = 0
          /\ sinterval \in {1, 2}
          /\ smaxPollTime \in 1..MaxPollTimeChoice
          /\ squeries = 0
          /\ ssleeps = 0
          /\ sthrown = NoError /\ sonly5xx = TRUE
          /\ jobSetId = "" /\ jobs = <<>> /\ pollClient = "axios" /\ pollInterval = 1
          /\ maxPollTime = 1
          /\ now = 0 /\ startTime = 0 /\ ppc = "off" /\ pthrown = NoError /\ queries = 0
          /\ psleeps = 0 /\ perror = NoError /\ phist = <<>> /\ lastResponse = <<>>
    /\ maxRetries = 0 /\ backoff = 0 /\ maxBackoff = 0 /\ viaInterceptor = FALSE
    /\ attempt = 0 /\ lastError = NoError /\ delay = 0 /\ rpc = "off"
    /\ rthrown = NoError /\ calls = 0 /\ sleeps = 0 /\ allRetryable = TRUE /\ rresult = 0
    /\ cin = NoError /\ cout = NoError /\ cpc = "off"
    /\ cfgArg = <<>> /\ cfg = Defaults /\ cfgpc = "off" /\ cfgError = ""
    /\ op = "none" /\ withPolling = "absent" /\ fpc = "off" /\ submitted = NoResponse
    /\ entity = NoResponse /\ fqueries = 0 /\ fthrown = NoError
    /\ v2variant = "pollV2" /\ v2jobs = <<>> /\ v2resp = NoV2Response /\ v2returned = NoV2Response
    /\ v2last = "none" /\ v2pc = "off" /\ v2now = 0 /\ v2start = 0 /\ v2maxPollTime = 1
    /\ v2queries = 0 /\ v2thrown = NoError /\ v2onlyCanceled = TRUE
    /\ env = NoEnv /\ globalConfig = "undefined" /\ globalClient = Undefined
    /\ globalCredentials = Undefined /\ global0 = <<"undefined", Undefined, Undefined>>
    /\ tpc = <<>> /\ tmissing = <<>> /\ tthrown = <<>> /\ posts = <<>> /\ inits = 0
    /\ clock = 0 /\ heap = <<>> /\ jobSetOf = <<>> /\ callpc = <<>> /\ callStart = <<>>
    /\ callTimer = <<>> /\ callQueries = <<>> /\ callThrown = <<>> /\ callGot = <<>>
    /\ callMaxPollTime = 1
    /\ lkind = "JobSet.poll" /\ lpc = "off" /\ lnow = 0 /\ lstart = 0 /\ linterval = 1
    /\ lmaxPollTime = 1
    /\ window = FALSE /\ instances = 0 /\ apiCalls = 0 /\ lastCall = <<>> /\ subpc = "off"
    /\ subAttempt = 0 /\ subStarted = <<>> /\ subUsing = <<>> /\ subThrown = ""

-----------------------------------------------------------------------------
(* The singleton of the v2 client: globalConfig, globalClient,               *)
(* globalCredentials, and concurrent calls of subscribe (Node.js)            *)

Tasks == 1..MaxTasks

\* The environments of the process.
Envs ==
    [HF_CREDENTIALS : {<<>>, <<"id", "secret">>, <<"malformed">>},
     HF_API_KEY     : {<<>>, <<"key1">>, <<"org", "key1">>},
     HF_API_SECRET  : {<<>>, <<"secret1">>}]

\* auth.ts: fetchCredentials, Undefined when it throws CredentialsMissedError
fetchCredentials(e) ==
    IF e.HF_CREDENTIALS # <<>> /\ Len(split(e.HF_CREDENTIALS)) = 2
    THEN Credentials(<<split(e.HF_CREDENTIALS)[1]>>, <<split(e.HF_CREDENTIALS)[2]>>)
    ELSE IF e.HF_API_KEY # <<>> /\ e.HF_API_SECRET # <<>>
    THEN Credentials(e.HF_API_KEY, e.HF_API_SECRET)
    ELSE Undefined

\* initializeClient(config) for config.credentials = c (<<>>: the field is
\* absent): whether it threw BadInputError, and the credentials of the client
initializeClient(c, e) ==
    IF c # <<>>
    THEN IF Len(split(c)) = 2
         THEN [threw |-> FALSE, credentials |-> Credentials(<<split(c)[1]>>, <<split(c)[2]>>)]
         ELSE [threw |-> TRUE, credentials |-> Undefined]
    ELSE [threw |-> FALSE,
          credentials |-> IF fetchCredentials(e).set THEN fetchCredentials(e)
                          ELSE Credentials(<<>>, <<>>)]

\* (mutant) every call initialises
needsInit_Always(client, credentials) == TRUE

\* subscribe: the test that sends it to the credentials provider
needsInit(client, credentials) ==
    \/ ~client.set
    \/ ~credentials.set
    \/ credentials.apiKey = <<>>
    \/ credentials.apiSecret = <<>>

\* The module after reset() or createHiggsfieldClient(), or after
\* createHiggsfieldClient({}); no subscribe call has run yet.
SingletonInit ==
    /\ env \in Envs
    /\ \E created \in BOOLEAN :
        /\ globalConfig = IF created THEN "Config" ELSE "undefined"
        /\ globalClient = IF created THEN initializeClient(<<>>, env).credentials ELSE Undefined
        /\ globalCredentials = IF created THEN initializeClient(<<>>, env).credentials
                               ELSE Undefined
    /\ global0 = <<globalConfig, globalClient, globalCredentials>>
    /\ tpc = [t \in Tasks |-> "idle"]
    /\ tmissing = [t \in Tasks |-> FALSE]
    /\ tthrown = [t \in Tasks |-> ""]
    /\ posts = [t \in Tasks |-> 0]
    /\ inits = 0
    /\ maxRetries = 0 /\ backoff = 0 /\ maxBackoff = 0 /\ viaInterceptor = FALSE
    /\ attempt = 0 /\ lastError = NoError /\ delay = 0 /\ rpc = "off"
    /\ rthrown = NoError /\ calls = 0 /\ sleeps = 0 /\ allRetryable = TRUE /\ rresult = 0
    /\ jobSetId = "" /\ jobs = <<>> /\ pollClient = "axios" /\ pollInterval = 1
    /\ maxPollTime = 1
    /\ now = 0 /\ startTime = 0 /\ ppc = "off" /\ pthrown = NoError /\ queries = 0
    /\ psleeps = 0 /\ perror = NoError /\ phist = <<>> /\ lastResponse = <<>>
    /\ cin = NoError /\ cout = NoError /\ cpc = "off"
    /\ cfgArg = <<>> /\ cfg = Defaults /\ cfgpc = "off" /\ cfgError = ""
    /\ op = "none" /\ withPolling = "absent" /\ fpc = "off" /\ submitted = NoResponse
    /\ entity = NoResponse /\ fqueries = 0 /\ fthrown = NoError
    /\ v2variant = "pollV2" /\ v2jobs = <<>> /\ v2resp = NoV2Response /\ v2returned = NoV2Response
    /\ v2last = "none" /\ v2pc = "off" /\ v2now = 0 /\ v2start = 0 /\ v2maxPollTime = 1
    /\ v2queries = 0 /\ v2thrown = NoError /\ v2onlyCanceled = TRUE
    /\ soulStatus = "queued" /\ soulResp = "" /\ soulLast = "none" /\ spc = "off" /\ snow = 0
    /\ sstart = 0 /\ sinterval = 1 /\ smaxPollTime = 1 /\ squeries = 0 /\ ssleeps = 0
    /\ sthrown = NoError /\ sonly5xx = TRUE
    /\ clock = 0 /\ heap = <<>> /\ jobSetOf = <<>> /\ callpc = <<>> /\ callStart = <<>>
    /\ callTimer = <<>> /\ callQueries = <<>> /\ callThrown = <<>> /\ callGot = <<>>
    /\ callMaxPollTime = 1
    /\ lkind = "JobSet.poll" /\ lpc = "off" /\ lnow = 0 /\ lstart = 0 /\ linterval = 1
    /\ lmaxPollTime = 1
    /\ window = FALSE /\ instances = 0 /\ apiCalls = 0 /\ lastCall = <<>> /\ subpc = "off"
    /\ subAttempt = 0 /\ subStarted = <<>> /\ subUsing = <<>> /\ subThrown = ""

\* subscribe, from its call to its first await: the credentials test, the
\* initialisation, and the submission request of retryWithBackoff's first attempt
SubscribeEnter(t) ==
    /\ tpc[t] = "idle"
    /\ tmissing' = [tmissing EXCEPT ![t] = needsInit(globalClient, globalCredentials)]
    /\ IF needsInit(globalClient, globalCredentials)
       THEN LET envCreds == fetchCredentials(env)
                made == initializeClient(template(envCreds.apiKey, envCreds.apiSecret), env)
            IN  IF envCreds.set /\ ~made.threw
                THEN /\ globalConfig' = "Config"
                     /\ globalClient' = made.credentials
                     /\ globalCredentials' = made.credentials
                     /\ inits' = inits + 1
                     /\ tpc' = [tpc EXCEPT ![t] = "posted"]
                     /\ posts' = [posts EXCEPT ![t] = 1]
                     /\ UNCHANGED tthrown
                ELSE /\ tpc' = [tpc EXCEPT ![t] = "thrown"]
                     /\ tthrown' = [tthrown EXCEPT ![t] = "CredentialsMissedError"]
                     /\ UNCHANGED <<globalConfig, globalClient, globalCredentials, inits, posts>>
       ELSE IF ~globalClient.set \/ globalConfig = "undefined"
            THEN /\ tpc' = [tpc EXCEPT ![t] = "thrown"]
                 /\ tthrown' = [tthrown EXCEPT ![t] = "CredentialsMissedError"]
                 /\ UNCHANGED <<globalConfig, globalClient, globalCredentials, inits, posts>>
            ELSE /\ tpc' = [tpc EXCEPT ![t] = "posted"]
                 /\ posts' = [posts EXCEPT ![t] = 1]
                 /\ UNCHANGED <<globalConfig, globalClient, globalCredentials, inits, tthrown>>
    /\ UNCHANGED <<env, global0>>

\* the rest of subscribe: it returns the response, or raises a failure of
\* the submission or of the poll
SubscribeSettle(t) ==
    /\ tpc[t] = "posted"
    /\ \E failed \in BOOLEAN :
        /\ tpc' = [tpc EXCEPT ![t] = IF failed THEN "thrown" ELSE "settled"]
        /\ tthrown' = [tthrown EXCEPT ![t] = IF failed THEN "APIError" ELSE ""]
    /\ UNCHANGED <<env, globalConfig, globalClient, globalCredentials, global0, tmissing,
                   posts, inits>>

-----------------------------------------------------------------------------
(* Two calls of generate on one client, interleaved at their awaits          *)

\* The two calls.
Calls == {"first", "second"}

\* The jobs a submission response and a status response carry.
CallResponses == {<<"queued">>, <<"completed">>, <<"queued", "failed">>}

\* What a status query of this.client rejects with: a response of status 503,
\* a connection reset, both through the response interceptor.
CallFailures ==
    {Interceptor(AxiosErr("", 503, NoBody)), Interceptor(AxiosErr("ECONNRESET", 0, NoBody))}

\* the id the server gives the job set of a call
JobSetIdOf(c) == "job-set-of-" \o c

Max(a, b) == IF a >= b THEN a ELSE b

\* (mutant) every call is given the first JobSet object
newJobSet_Reused(h, data) ==
    IF Len(h) = 0 THEN <<JobSetOf(data.id, data.jobs)>>
    ELSE [h EXCEPT ![1] = JobSetOf(data.id, data.jobs)]

\* generate: new JobSet(response.data), a fresh object at the end of the heap
newJobSet(h, data) == Append(h, JobSetOf(data.id, data.jobs))

\* Two calls of generate have been made, with polling, on a client whose
\* config stays as it is; each is awaiting its submission (no other operation runs).
CallsInit ==
    /\ clock = 0
    /\ heap = <<>>
    /\ jobSetOf = [c \in Calls |-> 0]
    /\ callpc = [c \in Calls |-> "submit"]
    /\ callStart = [c \in Calls |-> 0]
    /\ callTimer = [c \in Calls |-> 0]
    /\ callQueries = [c \in Calls |-> 0]
    /\ callThrown = [c \in Calls |-> NoError]
    /\ callGot = [c \in Calls |-> <<>>]
    /\ callMaxPollTime \in 1..MaxPollTimeChoice
    /\ maxRetries = 0 /\ backoff = 0 /\ maxBackoff = 0 /\ viaInterceptor = FALSE
    /\ attempt = 0 /\ lastError = NoError /\ delay = 0 /\ rpc = "off"
    /\ rthrown = NoError /\ calls = 0 /\ sleeps = 0 /\ allRetryable = TRUE /\ rresult = 0
    /\ cin = NoError /\ cout = NoError /\ cpc = "off"
    /\ cfgArg = <<>> /\ cfg = Defaults /\ cfgpc = "off" /\ cfgError = ""
    /\ op = "none" /\ withPolling = "absent" /\ fpc = "off" /\ submitted = NoResponse
    /\ entity = NoResponse /\ fqueries = 0 /\ fthrown = NoError
    /\ v2variant = "pollV2" /\ v2jobs = <<>> /\ v2resp = NoV2Response /\ v2returned = NoV2Response
    /\ v2last = "none" /\ v2pc = "off" /\ v2now = 0 /\ v2start = 0 /\ v2maxPollTime = 1
    /\ v2queries = 0 /\ v2thrown = NoError /\ v2onlyCanceled = TRUE
    /\ soulStatus = "queued" /\ soulResp = "" /\ soulLast = "none" /\ spc = "off" /\ snow = 0
    /\ sstart = 0 /\ sinterval = 1 /\ smaxPollTime = 1 /\ squeries = 0 /\ ssleeps = 0
    /\ sthrown = NoError /\ sonly5xx = TRUE
    /\ env = NoEnv /\ globalConfig = "undefined" /\ globalClient = Undefined
    /\ globalCredentials = Undefined /\ global0 = <<"undefined", Undefined, Undefined>>
    /\ tpc = <<>> /\ tmissing = <<>> /\ tthrown = <<>> /\ posts = <<>> /\ inits = 0
    /\ jobSetId = "" /\ jobs = <<>> /\ pollClient = "axios" /\ pollInterval = 1
    /\ maxPollTime = 1
    /\ now = 0 /\ startTime = 0 /\ ppc = "off" /\ pthrown = NoError /\ queries = 0
    /\ psleeps = 0 /\ perror = NoError /\ phist = <<>> /\ lastResponse = <<>>
    /\ lkind = "JobSet.poll" /\ lpc = "off" /\ lnow = 0 /\ lstart = 0 /\ linterval = 1
    /\ lmaxPollTime = 1
    /\ window = FALSE /\ instances = 0 /\ apiCalls = 0 /\ lastCall = <<>> /\ subpc = "off"
    /\ subAttempt = 0 /\ subStarted = <<>> /\ subUsing = <<>> /\ subThrown = ""

\* retryWithBackoff resolves: new JobSet(response.data); jobSet.poll takes
\* startTime
CallSubmitted(c) ==
    /\ callpc[c] = "submit"
    /\ \E d \in 0..MaxLatency, r \in CallResponses :
        /\ clock' = clock + d
        /\ heap' = newJobSet(heap, JobSetOf(JobSetIdOf(c), r))
        /\ jobSetOf' = [jobSetOf EXCEPT ![c] = Len(heap')]
        /\ callGot' = [callGot EXCEPT ![c] = r]
        /\ callStart' = [callStart EXCEPT ![c] = clock']
    /\ callpc' = [callpc EXCEPT ![c] = "check"]
    /\ UNCHANGED <<callTimer, callQueries, callThrown, callMaxPollTime>>

\* the head of the loop: throw new TimeoutError(...)
CallTimeout(c) ==
    /\ callpc[c] = "check"
    /\ DeadlinePassed(clock, callStart[c], callMaxPollTime)
    /\ callpc' = [callpc EXCEPT ![c] = "thrown"]
    /\ callThrown' = [callThrown EXCEPT ![c] = TimeoutError(callMaxPollTime)]
    /\ UNCHANGED <<clock, heap, jobSetOf, callStart, callTimer, callQueries, callGot,
                   callMaxPollTime>>

\* client.get(this.pollingUrl) is issued
CallQuery(c) ==
    /\ callpc[c] = "check"
    /\ ~DeadlinePassed(clock, callStart[c], callMaxPollTime)
    /\ callpc' = [callpc EXCEPT ![c] = "query"]
    /\ callQueries' = [callQueries EXCEPT ![c] = @ + 1]
    /\ UNCHANGED <<clock, heap, jobSetOf, callStart, callTimer, callThrown, callGot,
                   callMaxPollTime>>

\* the status query resolves: this.jobs = response.data.jobs; break, or the
\* timer of the sleep is set
CallAnswer(c) ==
    /\ callpc[c] = "query"
    /\ \E d \in 0..MaxLatency, r \in CallResponses :
        /\ clock' = clock + d
        /\ heap' = [heap EXCEPT ![jobSetOf[c]] = applyResponse(@, JobSetOf(AnsweredId, r))]
        /\ callGot' = [callGot EXCEPT ![c] = r]
        /\ callTimer' = [callTimer EXCEPT ![c] = clock' + CallPollInterval]
        /\ callpc' = [callpc EXCEPT ![c] =
                        IF isSettled(heap'[jobSetOf[c]].jobs) THEN "returned" ELSE "sleep"]
    /\ UNCHANGED <<jobSetOf, callStart, callQueries, callThrown, callMaxPollTime>>

\* the status query rejects: the catch block
CallCatch(c) ==
    /\ callpc[c] = "query"
    /\ \E d \in 0..MaxLatency, f \in CallFailures :
        /\ clock' = clock + d
        /\ callTimer' = [callTimer EXCEPT ![c] = clock' + CallPollInterval]
        /\ IF isServerError(f)
           THEN callpc' = [callpc EXCEPT ![c] = "sleep"] /\ UNCHANGED callThrown
           ELSE /\ callpc' = [callpc EXCEPT ![c] = "thrown"]
                /\ callThrown' = [callThrown EXCEPT ![c] = f]
    /\ UNCHANGED <<heap, jobSetOf, callStart, callQueries, callGot, callMaxPollTime>>

\* the timer of the call's sleep fires
CallWake(c) ==
    /\ callpc[c] = "sleep"
    /\ \E lag \in 0..MaxLag : clock' = Max(clock, callTimer[c]) + lag
    /\ callpc' = [callpc EXCEPT ![c] = "check"]
    /\ UNCHANGED <<heap, jobSetOf, callStart, callTimer, callQueries, callThrown, callGot,
                   callMaxPollTime>>

-----------------------------------------------------------------------------
(* The loop of JobSet.poll, SoulId.poll, JobSet.pollV2 and pollV2Request,    *)
(* without the counters and histories of the models above: what decides that *)
(* it ends is the clock, the deadline and the stop condition                 *)

PollKinds == {"JobSet.poll", "SoulId.poll", "JobSet.pollV2", "pollV2Request"}

\* What a status query of each poll is answered with.
LiveResponses(kind) ==
    IF kind = "JobSet.poll" THEN JobLists
    ELSE IF kind = "SoulId.poll" THEN SoulIdStatus
    ELSE V2Responses

\* The condition under which each poll leaves its loop on a response.
Stops(kind, response) ==
    IF kind = "JobSet.poll" THEN isSettled(response)
    ELSE IF kind = "SoulId.poll" THEN soulStops(response)
    ELSE IF kind = "JobSet.pollV2" THEN shouldStop(StatusOrQueued(response.status))
    ELSE shouldStop(response.status)

\* (mutant) the clock stands still over a sleep
Elapse_Frozen(t, interval, lag) == t

\* Date.now() after a setTimeout of interval that fires lag late
Elapse(t, interval, lag) == t + interval + lag

\* A poll has just taken startTime; config.pollInterval and config.maxPollTime
\* are positive, as Config.validate leaves them (no other operation runs).
LiveInit ==
    /\ lkind \in PollKinds
    /\ lpc = "check"
    /\ lnow \in {0, 1}
    /\ lstart = lnow
    /\ linterval \in {1, 2}
    /\ lmaxPollTime \in 1..MaxPollTimeChoice
    /\ maxRetries = 0 /\ backoff = 0 /\ maxBackoff = 0 /\ viaInterceptor = FALSE
    /\ attempt = 0 /\ lastError = NoError /\ delay = 0 /\ rpc = "off"
    /\ rthrown = NoError /\ calls = 0 /\ sleeps = 0 /\ allRetryable = TRUE /\ rresult = 0
    /\ cin = NoError /\ cout = NoError /\ cpc = "off"
    /\ cfgArg = <<>> /\ cfg = Defaults /\ cfgpc = "off" /\ cfgError = ""
    /\ op = "none" /\ withPolling = "absent" /\ fpc = "off" /\ submitted = NoResponse
    /\ entity = NoResponse /\ fqueries = 0 /\ fthrown = NoError
    /\ v2variant = "pollV2" /\ v2jobs = <<>> /\ v2resp = NoV2Response /\ v2returned = NoV2Response
    /\ v2last = "none" /\ v2pc = "off" /\ v2now = 0 /\ v2start = 0 /\ v2maxPollTime = 1
    /\ v2queries = 0 /\ v2thrown = NoError /\ v2onlyCanceled = TRUE
    /\ soulStatus = "queued" /\ soulResp = "" /\ soulLast = "none" /\ spc = "off" /\ snow = 0
    /\ sstart = 0 /\ sinterval = 1 /\ smaxPollTime = 1 /\ squeries = 0 /\ ssleeps = 0
    /\ sthrown = NoError /\ sonly5xx = TRUE
    /\ env = NoEnv /\ globalConfig = "undefined" /\ globalClient = Undefined
    /\ globalCredentials = Undefined /\ global0 = <<"undefined", Undefined, Undefined>>
    /\ tpc = <<>> /\ tmissing = <<>> /\ tthrown = <<>> /\ posts = <<>> /\ inits = 0
    /\ jobSetId = "" /\ jobs = <<>> /\ pollClient = "axios" /\ pollInterval = 1
    /\ maxPollTime = 1
    /\ now = 0 /\ startTime = 0 /\ ppc = "off" /\ pthrown = NoError /\ queries = 0
    /\ psleeps = 0 /\ perror = NoError /\ phist = <<>> /\ lastResponse = <<>>
    /\ clock = 0 /\ heap = <<>> /\ jobSetOf = <<>> /\ callpc = <<>> /\ callStart = <<>>
    /\ callTimer = <<>> /\ callQueries = <<>> /\ callThrown = <<>> /\ callGot = <<>>
    /\ callMaxPollTime = 1
    /\ window = FALSE /\ instances = 0 /\ apiCalls = 0 /\ lastCall = <<>> /\ subpc = "off"
    /\ subAttempt = 0 /\ subStarted = <<>> /\ subUsing = <<>> /\ subThrown = ""

\* the head of the loop: throw new TimeoutError(...)
LiveTimeout ==
    /\ lpc = "check"
    /\ DeadlinePassed(lnow, lstart, lmaxPollTime)
    /\ lpc' = "timedout"
    /\ UNCHANGED <<lkind, lnow, lstart, linterval, lmaxPollTime>>

\* client.get(pollingUrl) is issued
LiveQuery ==
    /\ lpc = "check"
    /\ ~DeadlinePassed(lnow, lstart, lmaxPollTime)
    /\ lpc' = "query"
    /\ UNCHANGED <<lkind, lnow, lstart, linterval, lmaxPollTime>>

\* the status query resolves
LiveAnswer ==
    /\ lpc = "query"
    /\ \E d \in 0..MaxLatency, r \in LiveResponses(lkind) :
        /\ lnow' = lnow + d
        /\ lpc' = IF Stops(lkind, r) THEN "returned" ELSE "sleep"
    /\ UNCHANGED <<lkind, lstart, linterval, lmaxPollTime>>

\* the status query rejects: the catch block
LiveCatch ==
    /\ lpc = "query"
    /\ \E d \in 0..MaxLatency, f \in ClientFailures \cup TransportFailures \cup {PlainError} :
        /\ lnow' = lnow + d
        /\ lpc' = IF isServerError(f) THEN "sleep" ELSE "failed"
    /\ UNCHANGED <<lkind, lstart, linterval, lmaxPollTime>>

\* the timer of pollInterval fires
LiveWake ==
    /\ lpc = "sleep"
    /\ \E lag \in 0..MaxLag : lnow' = Elapse(lnow, linterval, lag)
    /\ lpc' = "check"
    /\ UNCHANGED <<lkind, lstart, linterval, lmaxPollTime>>

-----------------------------------------------------------------------------
(* The v2 client: createHiggsfieldClient, configure and reset on the module's *)
(* three variables, and one subscribe call that they interleave with at its   *)
(* awaits                                                                      *)

\* createHiggsfieldClient() with no argument
NoConfig == [given |-> FALSE, credentials |-> <<>>, maxPollTime |-> DefaultMaxPollTime]

\* The V2ClientConfig arguments: credentials only; other credentials and a
\* maxPollTime; credentials with no colon; a maxPollTime that is not positive.
V2ClientConfigs ==
    {[given |-> TRUE, credentials |-> <<"id", "secret">>, maxPollTime |-> DefaultMaxPollTime],
     [given |-> TRUE, credentials |-> <<"id2", "secret2">>, maxPollTime |-> 60000],
     [given |-> TRUE, credentials |-> <<"malformed">>, maxPollTime |-> DefaultMaxPollTime],
     [given |-> TRUE, credentials |-> <<"id", "secret">>, maxPollTime |-> 0]}

\* new Config(configForConfig): the fields the argument sets
ConfigFor(config) == Assign(Defaults, [maxPollTime |-> config.maxPollTime])

\* a Config object, as the value of globalConfig
ConfigValue(c) ==
    IF c = Defaults THEN "Config" ELSE "Config/maxPollTime=" \o ToString(c.maxPollTime)

\* axios.create(...): instance n, with the credentials of its Authorization
\* header and the Config its baseURL and timeout come from
Client(creds, c, n) ==
    [set |-> TRUE, apiKey |-> creds.apiKey, apiSecret |-> creds.apiSecret,
     config |-> c, instance |-> n]

\* initializeClient threw the error named
Threw(name) ==
    [threw |-> name, config |-> "undefined", client |-> Undefined, credentials |-> Undefined]

\* initializeClient(config), the n-th axios instance being the next to create:
\* the error it threw ("" when it returned) and the three values it returned
initializeClientWith(config, e, w, n) ==
    IF w THEN Threw("BrowserNotSupportedError")
    ELSE IF initializeClient(config.credentials, e).threw THEN Threw("BadInputError")
    ELSE IF validate(ConfigFor(config)) # "" THEN Threw("Error")
    ELSE [threw |-> "",
          config |-> ConfigValue(ConfigFor(config)),
          client |-> Client(initializeClient(config.credentials, e).credentials,
                            ConfigValue(ConfigFor(config)), n),
          credentials |-> initializeClient(config.credentials, e).credentials]

\* the three assignments that follow a call of initializeClient: not reached
\* when it threw
commit(g, r) == IF r.threw = "" THEN <<r.config, r.client, r.credentials>> ELSE g

\* (mutant) reset leaves the credentials
afterReset_KeepsCredentials(g) == <<"undefined", Undefined, g[3]>>

\* reset(): the three variables are undefined
afterReset(g) == <<"undefined", Undefined, Undefined>>

\* (mutant) createHiggsfieldClient initialises whenever it is given a config
createInitialises_Whenever(config, gConfig, gClient) == config.given

\* createHiggsfieldClient: config && (!globalConfig || !globalClient)
createInitialises(config, gConfig, gClient) ==
    config.given /\ (gConfig = "undefined" \/ ~gClient.set)

\* The module has just been loaded, in Node.js or in a browser; subscribe is
\* about to be called once on a handle (no other operation runs).
ClientInit ==
    /\ env \in {e \in Envs : e.HF_API_KEY = <<>> /\ e.HF_API_SECRET = <<>>}
    /\ window \in BOOLEAN
    /\ globalConfig = "undefined"
    /\ globalClient = Undefined
    /\ globalCredentials = Undefined
    /\ instances = 0
    /\ apiCalls = 0
    /\ lastCall = <<>>
    /\ subpc = "idle"
    /\ subAttempt = 0
    /\ subStarted = <<>>
    /\ subUsing = <<>>
    /\ subThrown = ""
    /\ global0 = <<"undefined", Undefined, Undefined>>
    /\ tpc = <<>> /\ tmissing = <<>> /\ tthrown = <<>> /\ posts = <<>> /\ inits = 0
    /\ maxRetries = 0 /\ backoff = 0 /\ maxBackoff = 0 /\ viaInterceptor = FALSE
    /\ attempt = 0 /\ lastError = NoError /\ delay = 0 /\ rpc = "off"
    /\ rthrown = NoError /\ calls = 0 /\ sleeps = 0 /\ allRetryable = TRUE /\ rresult = 0
    /\ cin = NoError /\ cout = NoError /\ cpc = "off"
    /\ cfgArg = <<>> /\ cfg = Defaults /\ cfgpc = "off" /\ cfgError = ""
    /\ op = "none" /\ withPolling = "absent" /\ fpc = "off" /\ submitted = NoResponse
    /\ entity = NoResponse /\ fqueries = 0 /\ fthrown = NoError
    /\ v2variant = "pollV2" /\ v2jobs = <<>> /\ v2resp = NoV2Response /\ v2returned = NoV2Response
    /\ v2last = "none" /\ v2pc = "off" /\ v2now = 0 /\ v2start = 0 /\ v2maxPollTime = 1
    /\ v2queries = 0 /\ v2thrown = NoError /\ v2onlyCanceled = TRUE
    /\ soulStatus = "queued" /\ soulResp = "" /\ soulLast = "none" /\ spc = "off" /\ snow = 0
    /\ sstart = 0 /\ sinterval = 1 /\ smaxPollTime = 1 /\ squeries = 0 /\ ssleeps = 0
    /\ sthrown = NoError /\ sonly5xx = TRUE
    /\ jobSetId = "" /\ jobs = <<>> /\ pollClient = "axios" /\ pollInterval = 1
    /\ maxPollTime = 1
    /\ now = 0 /\ startTime = 0 /\ ppc = "off" /\ pthrown = NoError /\ queries = 0
    /\ psleeps = 0 /\ perror = NoError /\ phist = <<>> /\ lastResponse = <<>>
    /\ clock = 0 /\ heap = <<>> /\ jobSetOf = <<>> /\ callpc = <<>> /\ callStart = <<>>
    /\ callTimer = <<>> /\ callQueries = <<>> /\ callThrown = <<>> /\ callGot = <<>>
    /\ callMaxPollTime = 1
    /\ lkind = "JobSet.poll" /\ lpc = "off" /\ lnow = 0 /\ lstart = 0 /\ linterval = 1
    /\ lmaxPollTime = 1

\* createHiggsfieldClient(config)
Create(c) ==
    /\ apiCalls < MaxApiCalls
    /\ apiCalls' = apiCalls + 1
    /\ LET did == createInitialises(c, globalConfig, globalClient)
           r   == initializeClientWith(c, env, window, instances + 1)
           g   == IF did THEN commit(<<globalConfig, globalClient, globalCredentials>>, r)
                  ELSE <<globalConfig, globalClient, globalCredentials>>
       IN  /\ globalConfig' = g[1]
           /\ globalClient' = g[2]
           /\ globalCredentials' = g[3]
           /\ instances' = IF did /\ r.threw = "" THEN instances + 1 ELSE instances
           /\ lastCall' = [op |-> "createHiggsfieldClient", arg |-> c,
                           threw |-> IF did THEN r.threw ELSE ""]
    /\ UNCHANGED <<env, window, subpc, subAttempt, subStarted, subUsing, subThrown,
                   global0, tpc, tmissing, tthrown, posts, inits>>

\* configure(config), of the module and of the handle
Configure(c) ==
    /\ apiCalls < MaxApiCalls
    /\ apiCalls' = apiCalls + 1
    /\ LET r == initializeClientWith(c, env, window, instances + 1)
           g == commit(<<globalConfig, globalClient, globalCredentials>>, r)
       IN  /\ globalConfig' = g[1]
           /\ globalClient' = g[2]
           /\ globalCredentials' = g[3]
           /\ instances' = IF r.threw = "" THEN instances + 1 ELSE instances
           /\ lastCall' = [op |-> "configure", arg |-> c, threw |-> r.threw]
    /\ UNCHANGED <<env, window, subpc, subAttempt, subStarted, subUsing, subThrown,
                   global0, tpc, tmissing, tthrown, posts, inits>>

\* reset()
Reset ==
    /\ apiCalls < MaxApiCalls
    /\ apiCalls' = apiCalls + 1
    /\ LET g == afterReset(<<globalConfig, globalClient, globalCredentials>>)
       IN  /\ globalConfig' = g[1]
           /\ globalClient' = g[2]
           /\ globalCredentials' = g[3]
    /\ lastCall' = [op |-> "reset", arg |-> NoConfig, threw |-> ""]
    /\ UNCHANGED <<env, window, instances, subpc, subAttempt, subStarted, subUsing,
                   subThrown, global0, tpc, tmissing, tthrown, posts, inits>>

\* subscribe, from its call to its first await: the credentials test, the
\* initialisation from the environment, the test of line 262, and the first
\* globalClient.post of retryWithBackoff
SubStart ==
    /\ subpc = "idle"
    /\ LET envCreds == fetchCredentials(env)
           r == initializeClientWith(
                    [given |-> TRUE,
                     credentials |-> template(envCreds.apiKey, envCreds.apiSecret),
                     maxPollTime |-> DefaultMaxPollTime],
                    env, window, instances + 1)
           inits1 == needsInit(globalClient, globalCredentials)
           g == IF inits1 /\ envCreds.set
                THEN commit(<<globalConfig, globalClient, globalCredentials>>, r)
                ELSE <<globalConfig, globalClient, globalCredentials>>
           missed == \/ inits1 /\ (~envCreds.set \/ r.threw # "")
                     \/ ~g[2].set
                     \/ g[1] = "undefined"
       IN  /\ globalConfig' = g[1]
           /\ globalClient' = g[2]
           /\ globalCredentials' = g[3]
           /\ instances' = IF inits1 /\ envCreds.set /\ r.threw = ""
                           THEN instances + 1 ELSE instances
           /\ IF missed
              THEN /\ subpc' = "thrown"
                   /\ subThrown' = "CredentialsMissedError"
                   /\ UNCHANGED <<subStarted, subUsing>>
              ELSE /\ subpc' = "posting"
                   /\ subStarted' = <<g[2], g[1]>>
                   /\ subUsing' = <<g[2], g[1]>>
                   /\ UNCHANGED subThrown
    /\ UNCHANGED <<env, window, apiCalls, lastCall, subAttempt,
                   global0, tpc, tmissing, tthrown, posts, inits>>

\* the submission request rejects: the catch block of retryWithBackoff, whose
\* maxRetries subscribe read from globalConfig when it called it
SubPostRejects ==
    /\ subpc = "posting"
    /\ \E retried \in BOOLEAN :
        IF ~retried \/ Exhausted(subAttempt, Defaults.maxRetries)
        THEN /\ subpc' = "thrown"
             /\ subThrown' = IF retried THEN "APIError" ELSE "AuthenticationError"
        ELSE /\ subpc' = "backoff"
             /\ UNCHANGED subThrown
    /\ UNCHANGED <<env, window, globalConfig, globalClient, globalCredentials, instances,
                   apiCalls, lastCall, subAttempt, subStarted, subUsing,
                   global0, tpc, tmissing, tthrown, posts, inits>>

\* the backoff timer fires; attempt++; fn() evaluates globalClient!.post(...):
\* on the client that globalClient holds now, or a TypeError when it holds
\* none, which the catch block of retryWithBackoff takes like any failure
SubRetry ==
    /\ subpc = "backoff"
    /\ subAttempt' = subAttempt + 1
    /\ subUsing' = <<globalClient, subUsing[2]>>
    /\ IF globalClient.set
       THEN subpc' = "posting" /\ UNCHANGED subThrown
       ELSE IF Exhausted(subAttempt', Defaults.maxRetries)
            THEN subpc' = "thrown" /\ subThrown' = "TypeError"
            ELSE subpc' = "backoff" /\ UNCHANGED subThrown
    /\ UNCHANGED <<env, window, globalConfig, globalClient, globalCredentials, instances,
                   apiCalls, lastCall, subStarted,
                   global0, tpc, tmissing, tthrown, posts, inits>>

\* the submission request resolves; with polling on and a request_id,
\* pollV2Request(globalClient, globalConfig, request_id) is called with what
\* the two variables hold now, and reads config.maxPollTime
SubPostResolves ==
    /\ subpc = "posting"
    /\ \E polls \in BOOLEAN :
        IF polls
        THEN /\ subUsing' = <<globalClient, globalConfig>>
             /\ IF globalConfig = "undefined"
                THEN subpc' = "thrown" /\ subThrown' = "TypeError"
                ELSE subpc' = "polling" /\ UNCHANGED subThrown
        ELSE /\ subpc' = "returned"
             /\ UNCHANGED <<subUsing, subThrown>>
    /\ UNCHANGED <<env, window, globalConfig, globalClient, globalCredentials, instances,
                   apiCalls, lastCall, subAttempt, subStarted,
                   global0, tpc, tmissing, tthrown, posts, inits>>

\* pollV2Request ends, on the client and the config it was called with
SubPollEnds ==
    /\ subpc = "polling"
    /\ \E timedOut \in BOOLEAN :
        /\ subpc' = IF timedOut THEN "thrown" ELSE "returned"
        /\ subThrown' = IF timedOut THEN "TimeoutError" ELSE ""
    /\ UNCHANGED <<env, window, globalConfig, globalClient, globalCredentials, instances,
                   apiCalls, lastCall, subAttempt, subStarted, subUsing,
                   global0, tpc, tmissing, tthrown, posts, inits>>

-----------------------------------------------------------------------------
(* Specifications *)

RetryNext ==
    \/ RetryReturn /\ UNCHANGED <<pollVars, classVars, configVars, facadeVars, v2Vars, soulVars, singletonVars, callVars, liveVars, clientVars>>
    \/ RetryCatch /\ UNCHANGED <<pollVars, classVars, configVars, facadeVars, v2Vars, soulVars, singletonVars, callVars, liveVars, clientVars>>
    \/ RetryWake /\ UNCHANGED <<pollVars, classVars, configVars, facadeVars, v2Vars, soulVars, singletonVars, callVars, liveVars, clientVars>>

PollNext ==
    \/ PollStart /\ UNCHANGED <<retryVars, classVars, configVars, facadeVars, v2Vars, soulVars, singletonVars, callVars, liveVars, clientVars>>
    \/ PollTimeout /\ UNCHANGED <<retryVars, classVars, configVars, facadeVars, v2Vars, soulVars, singletonVars, callVars, liveVars, clientVars>>
    \/ PollQuery /\ UNCHANGED <<retryVars, classVars, configVars, facadeVars, v2Vars, soulVars, singletonVars, callVars, liveVars, clientVars>>
    \/ PollResponse /\ UNCHANGED <<retryVars, classVars, configVars, facadeVars, v2Vars, soulVars, singletonVars, callVars, liveVars, clientVars>>
    \/ PollCatch /\ UNCHANGED <<retryVars, classVars, configVars, facadeVars, v2Vars, soulVars, singletonVars, callVars, liveVars, clientVars>>
    \/ PollWake /\ UNCHANGED <<retryVars, classVars, configVars, facadeVars, v2Vars, soulVars, singletonVars, callVars, liveVars, clientVars>>

\* one execution of retryWithBackoff
SpecRetry == RetryInit /\ [][RetryNext]_vars

\* one execution of JobSet.poll
SpecPoll == PollInit /\ [][PollNext]_vars

ClassifyNext ==
    \/ Reject /\ UNCHANGED <<retryVars, pollVars, configVars, facadeVars, v2Vars, soulVars, singletonVars, callVars, liveVars, clientVars>>

\* the response interceptor on one failed transport call
SpecClassify == ClassifyInit /\ [][ClassifyNext]_vars

ConfigNext ==
    \/ NewConfig /\ UNCHANGED <<retryVars, pollVars, classVars, facadeVars, v2Vars, soulVars, singletonVars, callVars, liveVars, clientVars>>

\* one call of new Config(config)
SpecConfig == ConfigInit /\ [][ConfigNext]_vars

SubmitNext ==
    \/ SubmitReturn /\ UNCHANGED <<pollVars, classVars, configVars, v2Vars, soulVars, singletonVars, callVars, liveVars, clientVars>>
    \/ SubmitCatchRetried /\ UNCHANGED <<pollVars, classVars, configVars, v2Vars, soulVars, singletonVars, callVars, liveVars, clientVars>>
    \/ SubmitCatchDirect /\ UNCHANGED <<pollVars, classVars, configVars, v2Vars, soulVars, singletonVars, callVars, liveVars, clientVars>>
    \/ SubmitWake /\ UNCHANGED <<pollVars, classVars, configVars, v2Vars, soulVars, singletonVars, callVars, liveVars, clientVars>>
    \/ StatusQuery /\ UNCHANGED <<pollVars, classVars, configVars, v2Vars, soulVars, singletonVars, callVars, liveVars, clientVars>>
    \/ PollerThrows /\ UNCHANGED <<pollVars, classVars, configVars, v2Vars, soulVars, singletonVars, callVars, liveVars, clientVars>>

\* one call of a submission operation
SpecSubmit == SubmitInit /\ [][SubmitNext]_vars

V2Next ==
    \/ V2Timeout /\ UNCHANGED <<retryVars, pollVars, classVars, configVars, facadeVars, soulVars, singletonVars, callVars, liveVars, clientVars>>
    \/ V2Query /\ UNCHANGED <<retryVars, pollVars, classVars, configVars, facadeVars, soulVars, singletonVars, callVars, liveVars, clientVars>>
    \/ V2Answer /\ UNCHANGED <<retryVars, pollVars, classVars, configVars, facadeVars, soulVars, singletonVars, callVars, liveVars, clientVars>>
    \/ V2Catch /\ UNCHANGED <<retryVars, pollVars, classVars, configVars, facadeVars, soulVars, singletonVars, callVars, liveVars, clientVars>>
    \/ V2Wake /\ UNCHANGED <<retryVars, pollVars, classVars, configVars, facadeVars, soulVars, singletonVars, callVars, liveVars, clientVars>>

\* one execution of JobSet.pollV2 or of pollV2Request
SpecPollV2 == V2Init /\ [][V2Next]_vars

SoulNext ==
    \/ SoulTimeout /\ UNCHANGED <<retryVars, pollVars, classVars, configVars, facadeVars, v2Vars, singletonVars, callVars, liveVars, clientVars>>
    \/ SoulQuery /\ UNCHANGED <<retryVars, pollVars, classVars, configVars, facadeVars, v2Vars, singletonVars, callVars, liveVars, clientVars>>
    \/ SoulAnswer /\ UNCHANGED <<retryVars, pollVars, classVars, configVars, facadeVars, v2Vars, singletonVars, callVars, liveVars, clientVars>>
    \/ SoulCatch /\ UNCHANGED <<retryVars, pollVars, classVars, configVars, facadeVars, v2Vars, singletonVars, callVars, liveVars, clientVars>>
    \/ SoulWake /\ UNCHANGED <<retryVars, pollVars, classVars, configVars, facadeVars, v2Vars, singletonVars, callVars, liveVars, clientVars>>

\* one execution of SoulId.poll
SpecSoulPoll == SoulInit /\ [][SoulNext]_vars

PollsNext == PollNext \/ SoulNext

\* one execution of JobSet.poll, or one of SoulId.poll
SpecPolls == PollsInit /\ [][PollsNext]_vars

SingletonNext ==
    \/ \E t \in Tasks : SubscribeEnter(t) /\ UNCHANGED <<retryVars, pollVars, classVars, configVars, facadeVars, v2Vars, soulVars, callVars, liveVars, clientVars>>
    \/ \E t \in Tasks : SubscribeSettle(t) /\ UNCHANGED <<retryVars, pollVars, classVars, configVars, facadeVars, v2Vars, soulVars, callVars, liveVars, clientVars>>

\* concurrent calls of subscribe on the singleton
SpecSingleton == SingletonInit /\ [][SingletonNext]_vars

CallsNext ==
    \/ \E c \in Calls : CallSubmitted(c) /\ UNCHANGED <<retryVars, pollVars, classVars, configVars, facadeVars, v2Vars, soulVars, singletonVars, liveVars, clientVars>>
    \/ \E c \in Calls : CallTimeout(c) /\ UNCHANGED <<retryVars, pollVars, classVars, configVars, facadeVars, v2Vars, soulVars, singletonVars, liveVars, clientVars>>
    \/ \E c \in Calls : CallQuery(c) /\ UNCHANGED <<retryVars, pollVars, classVars, configVars, facadeVars, v2Vars, soulVars, singletonVars, liveVars, clientVars>>
    \/ \E c \in Calls : CallAnswer(c) /\ UNCHANGED <<retryVars, pollVars, classVars, configVars, facadeVars, v2Vars, soulVars, singletonVars, liveVars, clientVars>>
    \/ \E c \in Calls : CallCatch(c) /\ UNCHANGED <<retryVars, pollVars, classVars, configVars, facadeVars, v2Vars, soulVars, singletonVars, liveVars, clientVars>>
    \/ \E c \in Calls : CallWake(c) /\ UNCHANGED <<retryVars, pollVars, classVars, configVars, facadeVars, v2Vars, soulVars, singletonVars, liveVars, clientVars>>

\* two interleaved calls of generate
SpecCalls == CallsInit /\ [][CallsNext]_vars

LiveNext ==
    \/ LiveTimeout /\ UNCHANGED <<retryVars, pollVars, classVars, configVars, facadeVars, v2Vars, soulVars, singletonVars, callVars, clientVars>>
    \/ LiveQuery /\ UNCHANGED <<retryVars, pollVars, classVars, configVars, facadeVars, v2Vars, soulVars, singletonVars, callVars, clientVars>>
    \/ LiveAnswer /\ UNCHANGED <<retryVars, pollVars, classVars, configVars, facadeVars, v2Vars, soulVars, singletonVars, callVars, clientVars>>
    \/ LiveCatch /\ UNCHANGED <<retryVars, pollVars, classVars, configVars, facadeVars, v2Vars, soulVars, singletonVars, callVars, clientVars>>
    \/ LiveWake /\ UNCHANGED <<retryVars, pollVars, classVars, configVars, facadeVars, v2Vars, soulVars, singletonVars, callVars, clientVars>>

\* one execution of any of the four polls, in which every status query
\* completes and every timer fires
SpecPollLive == LiveInit /\ [][LiveNext]_vars /\ WF_vars(LiveNext)

ClientNext ==
    \/ \E c \in V2ClientConfigs \cup {NoConfig} : Create(c) /\ UNCHANGED <<retryVars, pollVars, classVars, configVars, facadeVars, v2Vars, soulVars, callVars, liveVars>>
    \/ \E c \in V2ClientConfigs : Configure(c) /\ UNCHANGED <<retryVars, pollVars, classVars, configVars, facadeVars, v2Vars, soulVars, callVars, liveVars>>
    \/ Reset /\ UNCHANGED <<retryVars, pollVars, classVars, configVars, facadeVars, v2Vars, soulVars, callVars, liveVars>>
    \/ SubStart /\ UNCHANGED <<retryVars, pollVars, classVars, configVars, facadeVars, v2Vars, soulVars, callVars, liveVars>>
    \/ SubPostRejects /\ UNCHANGED <<retryVars, pollVars, classVars, configVars, facadeVars, v2Vars, soulVars, callVars, liveVars>>
    \/ SubRetry /\ UNCHANGED <<retryVars, pollVars, classVars, configVars, facadeVars, v2Vars, soulVars, callVars, liveVars>>
    \/ SubPostResolves /\ UNCHANGED <<retryVars, pollVars, classVars, configVars, facadeVars, v2Vars, soulVars, callVars, liveVars>>
    \/ SubPollEnds /\ UNCHANGED <<retryVars, pollVars, classVars, configVars, facadeVars, v2Vars, soulVars, callVars, liveVars>>

\* the v2 client's module-level calls around one subscribe call
SpecClient == ClientInit /\ [][ClientNext]_vars

-----------------------------------------------------------------------------
(* Properties *)

Last(s) == s[Len(s)]

\* retryWithBackoff, poll have ended
RetryEnded == rpc \in {"returned", "thrown"}
PollEnded  == ppc \in {"returned", "thrown"}

\* every status query so far was answered, and with no terminal job
AllPending == \A i \in 1..Len(phist) : phist[i] = "pending"

\* C1: a failure that is not retryable (anything but connection reset,
\* connection timeout, DNS failure or a response with status >= 500), raised
\* by the first invocation, ends retryWithBackoff at once: the operation was
\* invoked once, nothing slept, and that failure is the one raised.
C1_NonRetryablePropagatesAtOnce ==
    (lastError.seq = 1 /\ ~RetryableFailure(lastError)) =>
        /\ rpc = "thrown"
        /\ rthrown = lastError
        /\ calls = 1
        /\ sleeps = 0

\* C2: when every invocation failed with a retryable failure and
\* retryWithBackoff has raised, the operation was invoked maxRetries + 1 times,
\* maxRetries sleeps were taken, and the failure raised is the one of the last
\* invocation.
C2_RetryableExhaustsRetries ==
    (rpc = "thrown" /\ allRetryable) =>
        /\ calls = maxRetries + 1
        /\ sleeps = maxRetries
        /\ rthrown = lastError
        /\ rthrown.seq = calls

C2_Witness ==
    /\ rpc = "thrown" /\ allRetryable
    /\ maxRetries = MaxRetriesLimit /\ calls = MaxRetriesLimit + 1 /\ sleeps = MaxRetriesLimit
    /\ viaInterceptor /\ rthrown.kind = "APIError" /\ rthrown.status = 503

\* C11: whatever the outcomes of the operation, it is invoked at most
\* maxRetries + 1 times, and the failure retryWithBackoff raises is the one
\* the last invocation raised.
C11_BoundedAndLastFailure ==
    /\ calls <= maxRetries + 1
    /\ rpc = "thrown" => (rthrown # NoError /\ rthrown.seq = calls)

C11_Witness ==
    /\ rpc = "thrown" /\ ~allRetryable
    /\ maxRetries = 3 /\ calls = 4 /\ sleeps = 3
    /\ rthrown.seq = 4 /\ rthrown.kind = "ValidationError"

\* C3: a poll on the client's own transport never raises the failure of a
\* status query that the server answered with a status >= 500.
C3_ServerErrorKeepsClientPolling ==
    (pollClient = "client" /\ ppc = "thrown") => FailureKind(pthrown) # "classified5xx"

\* C4: after k non-terminal responses and then a terminal one (no failed
\* query), poll has returned, having issued k + 1 status queries and slept k
\* times, and the jobs are those of the last response.
C4_PollsUntilTerminal ==
    (phist # <<>> /\ Last(phist) = "settled"
        /\ \A i \in 1..(Len(phist) - 1) : phist[i] = "pending") =>
        /\ ppc = "returned"
        /\ queries = Len(phist)
        /\ psleeps = Len(phist) - 1
        /\ jobs = lastResponse
        /\ AnyTerminal(jobs)

C4_Witness ==
    /\ ppc = "returned"
    /\ phist = <<"pending", "pending", "settled">>
    /\ queries = 3
    /\ jobs = <<"completed">> /\ isCompleted(jobs)

\* C5: a poll that ended after nothing but non-terminal responses ended with
\* a TimeoutError that embeds maxPollTime, raised after more than maxPollTime
\* had elapsed: it has not returned and has raised no other error.
C5_PendingEndsInTimeout ==
    (PollEnded /\ AllPending) =>
        /\ ppc = "thrown"
        /\ pthrown.kind = "TimeoutError"
        /\ pthrown.msg = maxPollTime
        /\ now - startTime > maxPollTime

C5_Witness ==
    /\ ppc = "thrown" /\ pthrown.kind = "TimeoutError"
    /\ AllPending /\ Len(phist) >= 2
    /\ maxPollTime = 2 /\ pthrown.msg = 2 /\ now - startTime > 3

\* C6: a status query that fails with a transport error of status >= 500 does
\* not abort the poll, and when the next query gets a terminal response the
\* poll has returned after exactly 2 status queries with a terminal job.
C6_ServerErrorThenTerminal ==
    /\ (phist # <<>> /\ Last(phist) = "transport5xx") =>
            (ppc = "thrown" => pthrown.kind = "TimeoutError")
    /\ phist = <<"transport5xx", "settled">> =>
            (ppc = "returned" /\ queries = 2 /\ AnyTerminal(jobs) /\ jobs = lastResponse)

C6_Witness ==
    /\ phist = <<"transport5xx", "settled">>
    /\ perror.kind = "AxiosError" /\ perror.status = 503
    /\ ppc = "returned" /\ queries = 2

\* C7: a status query that fails with anything but a 5xx response (a 404, a
\* transport error without response, an error that is no transport error)
\* ends the poll at once: the failure raised is that one, the failed query is
\* the last one issued, and no sleep follows it.
C7_OtherFailureAborts ==
    (phist # <<>> /\ Last(phist) = "other") =>
        /\ ppc = "thrown"
        /\ pthrown = perror
        /\ pthrown.seq = queries
        /\ queries = Len(phist)
        /\ psleeps = Len(phist) - 1

C7_Witness ==
    /\ ppc = "thrown" /\ phist = <<"other">>
    /\ pthrown.kind = "AxiosError" /\ pthrown.status = 404
    /\ queries = 1 /\ psleeps = 0

\* C8: after a successful response, poll has returned exactly when some job
\* of the response is completed, failed, nsfw or canceled; and poll returns
\* only with such a job in the set.
C8_AnyTerminalJobStopsPoll ==
    /\ (phist # <<>> /\ Last(phist) \in {"pending", "settled"}) =>
            (ppc = "returned" <=> AnyTerminal(jobs))
    /\ ppc = "returned" => AnyTerminal(jobs)

C8_Witness ==
    /\ ppc = "returned"
    /\ jobs = <<"canceled", "in_progress">>

\* C9: isCompleted is true only of a JobSet whose jobs are all completed.
C9_IsCompletedMeansAllCompleted ==
    isCompleted(jobs) => \A i \in 1..Len(jobs) : jobs[i] = "completed"

\* C10: the delay before retry number n is at most maxBackoff, and lies in
\* [backoff * 2^n, backoff * 2^n + 1000) whenever that interval is below
\* maxBackoff.
C10_DelayBounds ==
    rpc = "sleep" =>
        LET base == backoff * Pow2(attempt) IN
        /\ delay <= maxBackoff
        /\ (base + JitterRange <= maxBackoff) => (base <= delay /\ delay < base + JitterRange)

C10_Witness ==
    /\ rpc = "sleep" /\ attempt = 2 /\ backoff = 500
    /\ delay = 2999 /\ maxBackoff = 4000

\* the detail of the body of the failed call
InDetail == cin.data.detail

\* the rule of the message, entry by entry from the left
RECURSIVE Dotted(_, _)
Dotted(loc, n) ==
    IF n = 0 THEN "" ELSE IF n = 1 THEN loc[1] ELSE Dotted(loc, n - 1) \o "." \o loc[n]
RECURSIVE Rendered(_, _)
Rendered(es, n) ==
    IF n = 0 THEN ""
    ELSE (IF n = 1 THEN "" ELSE Rendered(es, n - 1) \o ", ")
         \o Dotted(es[n].loc, Len(es[n].loc)) \o ": " \o es[n].msg

\* C12: the handler throws exactly one error, chosen by the response status
\* alone: 401 AuthenticationError, 403 NotEnoughCreditsError with statusCode
\* 403, 422 ValidationError, 400 BadInputError, another response an APIError
\* with that status and the raw body, no response the transport error itself.
C12_ClassifiedByStatus ==
    cpc = "rejected" =>
        /\ cin.status = 401 => cout = AuthenticationError("Invalid API credentials")
        /\ cin.status = 403 => (cout.kind = "NotEnoughCreditsError" /\ cout.status = 403
                                /\ cout = NotEnoughCreditsError)
        /\ cin.status = 422 => cout.kind = "ValidationError"
        /\ cin.status = 400 => cout.kind = "BadInputError"
        /\ cin.status \notin {0, 401, 403, 422, 400} =>
                (cout.kind = "APIError" /\ cout.status = cin.status /\ cout.data = cin.data)
        /\ cin.status = 0 => cout = cin

\* C13: a 422 response is thrown as a ValidationError, whatever its detail.
C13_Every422IsValidationError ==
    (cpc = "rejected" /\ cin.status = 422) => cout.kind = "ValidationError"

\* C14: the error of a 422 (400) response is a ValidationError with statusCode
\* 422 (a BadInputError with statusCode 400) whose message follows the rule:
\* a list of {loc, msg} entries gives '<loc joined by dots>: <msg>' per entry,
\* joined with ', ' in order, and is kept as details; a string is the message
\* and details is undefined; no detail gives 'Check your input params' and
\* details is undefined.
C14_DetailMessage ==
    (cpc = "rejected" /\ cin.status \in {422, 400}
        /\ InDetail.tag \in {"list", "string", "undefined"}
        /\ \A i \in 1..Len(InDetail.entries) : InDetail.entries[i].hasLoc) =>
        /\ cout.kind = (IF cin.status = 422 THEN "ValidationError" ELSE "BadInputError")
        /\ cout.status = cin.status
        /\ InDetail.tag = "list" =>
                /\ cout.message = Rendered(InDetail.entries, Len(InDetail.entries))
                /\ cout.details = InDetail
        /\ InDetail.tag = "string" =>
                (cout.message = InDetail.text /\ cout.details = NoDetail)
        /\ InDetail.tag = "undefined" =>
                (cout.message = "Check your input params" /\ cout.details = NoDetail)
        /\ InDetail = ListDetail(<<Entry(<<"body", "params", "batch_size">>, "Input should be 1 or 4"),
                                   Entry(<<"body", "params", "prompt">>, "Field required")>>) =>
                cout.message = "body.params.batch_size: Input should be 1 or 4, body.params.prompt: Field required"

C14_Witness ==
    /\ cpc = "rejected" /\ cin.status = 422
    /\ Len(InDetail.entries) = 2
    /\ cout.kind = "ValidationError"
    /\ cout.message = "body.params.batch_size: Input should be 1 or 4, body.params.prompt: Field required"
    /\ cout.details = InDetail

\* C15: new Config fails for every maxRetries below 0 or above 5, and succeeds
\* for every maxRetries in 0..5 when every duration field is positive.
C15_MaxRetriesRange ==
    cfgpc \in {"constructed", "failed"} =>
        /\ (cfg.maxRetries < 0 \/ cfg.maxRetries > 5) => cfgpc = "failed"
        /\ (cfg.maxRetries \in 0..5 /\ \A k \in DurationFields : cfg[k] > 0) =>
                (cfgpc = "constructed" /\ cfg = Assign(Defaults, cfgArg))

C15_Witness ==
    /\ cfgpc = "failed"
    /\ DOMAIN cfgArg = {"maxRetries"} /\ cfgArg["maxRetries"] = 6
    /\ cfgError = "maxRetries cannot be greater than 5"

\* C16: every Config that was constructed has timeout, retryBackoff,
\* retryMaxBackoff, pollInterval and maxPollTime greater than 0.
C16_DurationsPositive ==
    cfgpc = "constructed" => \A k \in DurationFields : cfg[k] > 0

\* the operation awaited its poller and the poller returned
WentThroughPoller == fqueries >= 1 /\ entity.status \in StopsAt(op)

\* the operation returned what it built from the submission response
ReturnedAsBuilt == fqueries = 0 /\ entity = Build(op, submitted)

\* C17: whatever the operation, a submission whose every attempt failed with a
\* retryable failure was attempted maxRetries + 1 times before the failure
\* reached the caller.
C17_SubmissionsAreRetried ==
    (fpc = "thrown" /\ rpc = "thrown" /\ allRetryable) =>
        (calls = maxRetries + 1 /\ sleeps = maxRetries)

\* C18 (as stated): an operation that returned with the flag absent or true
\* went through its poller; one that returned with the flag false issued no
\* status query and returned the entity as built.
C18_FlagControlsPolling ==
    fpc = "returned" =>
        /\ withPolling \in {"absent", "true"} => WentThroughPoller
        /\ withPolling = "false" => ReturnedAsBuilt

\* C18 (amended): as above, but the subscribe that returns the V2Response
\* goes through its poller only when the submission response carries a
\* request_id; without one it returns the response as built, whatever the flag.
C18_FlagControlsPollingGivenRequestId ==
    fpc = "returned" =>
        /\ (withPolling \in {"absent", "true"} /\ ~(op = "subscribe" /\ submitted.id = ""))
                => WentThroughPoller
        /\ (withPolling \in {"absent", "true"} /\ op = "subscribe" /\ submitted.id = "")
                => ReturnedAsBuilt
        /\ withPolling = "false" => ReturnedAsBuilt

C18_Witness ==
    /\ fpc = "returned" /\ op = "subscribe" /\ withPolling = "false"
    /\ submitted.id = "req-1" /\ submitted.status = "queued"
    /\ entity = submitted /\ fqueries = 0 /\ calls = 2

\* the statuses at which the request-keyed poll is to stop
V2Terminal == {"completed", "nsfw", "failed"}

\* C19: after a status response the v2 poll has returned exactly when the
\* reported status is completed, nsfw or failed (queued, in_progress, canceled
\* and a missing status keep it looping); and a poll whose every status query
\* was answered with canceled ends in a TimeoutError.
C19_V2StopsOnThreeStatuses ==
    /\ v2last = "response" => (v2pc = "returned" <=> v2resp.status \in V2Terminal)
    /\ v2pc = "returned" => v2last = "response"
    /\ (v2pc \in {"returned", "thrown"} /\ v2onlyCanceled) =>
            (v2pc = "thrown" /\ v2thrown.kind = "TimeoutError" /\ v2queries >= 1)

C19_Witness ==
    /\ v2pc = "thrown" /\ v2onlyCanceled /\ v2queries = 2
    /\ v2resp.status = "canceled"
    /\ v2thrown.kind = "TimeoutError"

\* the results of the first job after the last status response of pollV2
FirstResults == v2jobs[1].results
SlotsIdentical(r) == r.rawUrl = r.minUrl /\ r.rawType = r.minType
Normalized == v2variant = "pollV2" /\ v2last = "response"

\* C20 (as stated): after a status response of pollV2 the raw and min slots
\* of the first job are identical; a non-empty images list gives the first
\* image's URL with type image in both; a video gives the video URL with type
\* video in both.
C20_SlotsFromImageOrVideo ==
    Normalized =>
        /\ SlotsIdentical(FirstResults)
        /\ Len(v2resp.images) > 0 =>
                (FirstResults.present /\ FirstResults.rawUrl = v2resp.images[1]
                 /\ FirstResults.rawType = "image")
        /\ v2resp.video.present =>
                (FirstResults.present /\ FirstResults.rawUrl = v2resp.video.url
                 /\ FirstResults.rawType = "video")

\* C20 (amended): the video fills the slots only when the response has no
\* image and the video has a url; with neither the job has no results.
C20_SlotsFromImageElseVideo ==
    Normalized =>
        /\ SlotsIdentical(FirstResults)
        /\ Len(v2resp.images) > 0 =>
                (FirstResults.present /\ FirstResults.rawUrl = v2resp.images[1]
                 /\ FirstResults.rawType = "image")
        /\ (Len(v2resp.images) = 0 /\ v2resp.video.present /\ v2resp.video.url # "") =>
                (FirstResults.present /\ FirstResults.rawUrl = v2resp.video.url
                 /\ FirstResults.rawType = "video")
        /\ (Len(v2resp.images) = 0 /\ ~(v2resp.video.present /\ v2resp.video.url # "")) =>
                ~FirstResults.present

C20_Witness ==
    /\ Normalized /\ v2pc = "returned"
    /\ Len(v2resp.images) = 2 /\ v2resp.video.present /\ v2resp.video.url = VideoUrl
    /\ FirstResults.rawUrl = v2resp.images[1] /\ FirstResults.minUrl = v2resp.images[1]
    /\ FirstResults.rawType = "image"

\* C21: after a status response SoulId.poll has returned exactly when the
\* reported status is completed or failed (not_ready, queued and in_progress
\* keep it polling), it returns only on a response, and the entity's status
\* is the status of that response.
C21_SoulStopsOnCompletedOrFailed ==
    /\ soulLast = "response" => (spc = "returned" <=> soulResp \in {"completed", "failed"})
    /\ spc = "returned" => soulLast = "response"
    /\ soulLast = "response" => soulStatus = soulResp
    /\ (spc = "sleep" /\ soulLast = "response") =>
            soulStatus \in {"not_ready", "queued", "in_progress"}

C21_Witness ==
    /\ spc = "returned" /\ soulStatus = "failed" /\ soulResp = "failed"
    /\ squeries = 2 /\ ssleeps = 1 /\ soulLast = "response"

\* the singleton is as it was when the calls began
SingletonUntouched == <<globalConfig, globalClient, globalCredentials>> = global0

\* C22: a subscribe call that found the singleton's credentials missing asked
\* the provider: when the provider yields a key/secret pair the singleton is
\* initialised with that pair and the request is sent; when it yields none
\* the call raised CredentialsMissedError, sent no request, and the singleton
\* is as it was.
C22_LazyCredentials ==
    \A t \in Tasks : (tpc[t] # "idle" /\ tmissing[t]) =>
        IF fetchCredentials(env).set
        THEN /\ posts[t] = 1
             /\ globalClient.set /\ globalConfig = "Config"
             /\ globalCredentials = fetchCredentials(env)
        ELSE /\ tpc[t] = "thrown" /\ tthrown[t] = "CredentialsMissedError"
             /\ posts[t] = 0
             /\ SingletonUntouched

\* C23: with several subscribe calls in flight the singleton is initialised
\* at most once, exactly once when a call that found the credentials missing
\* got its request out, and the three globals are set together, the client
\* with the credentials of globalCredentials.
C23_InitialisedOnceAndWhole ==
    /\ inits <= 1
    /\ (\E t \in Tasks : tmissing[t] /\ posts[t] = 1) => inits = 1
    /\ globalClient.set <=> globalConfig = "Config"
    /\ globalClient.set <=> globalCredentials.set
    /\ globalClient = globalCredentials

C23_Witness ==
    /\ \A t \in Tasks : tpc[t] = "posted"
    /\ tmissing[1] # tmissing[2]
    /\ inits = 1
    /\ ~global0[2].set /\ globalClient.set

\* each status query so far failed with a transport error of status >= 500
AllTransport5xx == Len(phist) > 0 /\ \A i \in 1..Len(phist) : phist[i] = "transport5xx"

\* the last status query was answered, or failed
LastAnswered == Len(phist) > 0 /\ Last(phist) \in {"pending", "settled"}
LastFailed   == Len(phist) > 0 /\ Last(phist) \in {"transport5xx", "classified5xx", "other"}

\* this step is the outcome of a status query: an answer, a failure
AnswerStep  == Len(phist') = Len(phist) + 1 /\ Last(phist') \in {"pending", "settled"}
FailureStep == Len(phist') = Len(phist) + 1
               /\ Last(phist') \in {"transport5xx", "classified5xx", "other"}
TimeoutStep == pthrown' # pthrown /\ pthrown'.kind = "TimeoutError"

\* the same steps of SoulId.poll
SoulFailureStep == spc = "query" /\ spc' # "query" /\ soulLast' = "failure"
SoulTimeoutStep == sthrown' # sthrown /\ sthrown'.kind = "TimeoutError"

\* C25: a TimeoutError is raised only at the head of an iteration, with more
\* than maxPollTime elapsed; a status query is never cut short: its terminal
\* response makes poll return, whatever the time it arrives at.
C25_DeadlineOnlyAtLoopHead ==
    [][/\ TimeoutStep => (ppc = "check" /\ now - startTime > maxPollTime /\ now' = now)
       /\ (AnswerStep /\ Last(phist') = "settled") => ppc' = "returned"
       /\ ppc = "query" => ~TimeoutStep]_vars

C25_Witness ==
    /\ ppc = "returned" /\ LastAnswered
    /\ now - startTime > maxPollTime

\* C26: sleeps and status queries alternate: a sleep has followed every query
\* but the last one, and the last one too once the next iteration is reached;
\* none follows the query whose response is terminal or whose failure aborts.
C26_OneSleepBetweenQueries ==
    /\ ppc \in {"idle", "check"} => psleeps = queries
    /\ ppc \in {"query", "sleep", "returned"} => psleeps = queries - 1
    /\ ppc = "thrown" =>
            psleeps = (IF pthrown.kind = "TimeoutError" THEN queries ELSE queries - 1)
    /\ (Len(phist) > 0 /\ Last(phist) = "settled") => ppc = "returned"
    /\ (Len(phist) > 0 /\ Last(phist) \in {"classified5xx", "other"}) => ppc = "thrown"
    /\ spc = "check" => ssleeps = squeries
    /\ spc \in {"query", "sleep", "returned"} => ssleeps = squeries - 1
    /\ spc = "thrown" =>
            ssleeps = (IF sthrown.kind = "TimeoutError" THEN squeries ELSE squeries - 1)
    /\ (soulLast = "response" /\ soulStatus \in {"completed", "failed"}) => spc = "returned"

C26_Witness ==
    /\ ppc = "returned" /\ queries = 3 /\ psleeps = 2
    /\ phist = <<"pending", "transport5xx", "settled">>

\* C27: after a status response the jobs of the JobSet are the jobs of that
\* response, and the id of the JobSet is the one it was built with.
C27_JobsReplacedWholesale ==
    /\ LastAnswered => jobs = lastResponse
    /\ ppc # "off" => jobSetId = "job-set-1"

C27_Witness ==
    /\ LastAnswered /\ Len(phist) = 2 /\ phist[1] = "pending"
    /\ Len(jobs) = 1 /\ jobs = lastResponse /\ jobSetId = "job-set-1"

\* C29: a poll whose every status query failed with a transport error of
\* status >= 500 and that has ended, ended in the TimeoutError of maxPollTime,
\* past the deadline.
C29_Only5xxEndsInTimeout ==
    /\ (PollEnded /\ AllTransport5xx) =>
            /\ ppc = "thrown"
            /\ pthrown.kind = "TimeoutError"
            /\ pthrown.msg = maxPollTime
            /\ now - startTime > maxPollTime
    /\ (spc \in {"returned", "thrown"} /\ squeries > 0 /\ sonly5xx) =>
            /\ spc = "thrown"
            /\ sthrown.kind = "TimeoutError"
            /\ sthrown.msg = smaxPollTime
            /\ snow - sstart > smaxPollTime

C29_Witness ==
    /\ ppc = "thrown" /\ AllTransport5xx /\ Len(phist) = 2
    /\ pthrown.kind = "TimeoutError"

\* C30: the step of a failed status query, and the step that raises the
\* TimeoutError, leave the jobs and the id of the JobSet as they were.
C30_FailureLeavesEntity ==
    [][/\ (FailureStep \/ TimeoutStep) => (jobs' = jobs /\ jobSetId' = jobSetId)
       /\ (SoulFailureStep \/ SoulTimeoutStep) => soulStatus' = soulStatus]_vars

C30_Witness ==
    /\ ppc = "sleep" /\ LastFailed /\ Len(phist) = 2 /\ phist[1] = "pending"
    /\ Len(jobs) = 2 /\ jobs = lastResponse

\* this step is a step of call c
StepOf(c) == callpc'[c] # callpc[c]

\* C24: a step of one call leaves the other call's JobSet, start time, count
\* of status queries, position and failure as they were; the two calls hold
\* different JobSet objects; each call's JobSet has the id of its own
\* submission and the jobs of its own last response; a call returns on its own
\* terminal response and raises TimeoutError past its own deadline.
C24_CallsOwnTheirState ==
    /\ [][\A c, d \in Calls : (c # d /\ StepOf(c)) =>
            /\ callpc'[d] = callpc[d]
            /\ callStart'[d] = callStart[d]
            /\ callQueries'[d] = callQueries[d]
            /\ callThrown'[d] = callThrown[d]
            /\ jobSetOf'[d] = jobSetOf[d]
            /\ jobSetOf[d] # 0 => heap'[jobSetOf[d]] = heap[jobSetOf[d]]]_vars
    /\ [](\A c \in Calls :
            /\ \A d \in Calls : (c # d /\ jobSetOf[c] # 0) => jobSetOf[c] # jobSetOf[d]
            /\ jobSetOf[c] # 0 => heap[jobSetOf[c]] = JobSetOf(JobSetIdOf(c), callGot[c])
            /\ callpc[c] = "returned" => AnyTerminal(callGot[c])
            /\ (callpc[c] = "thrown" /\ callThrown[c].kind = "TimeoutError") =>
                    clock - callStart[c] > callMaxPollTime)

C24_Witness ==
    /\ callpc["first"] = "sleep" /\ callQueries["first"] = 2
    /\ callpc["second"] = "query" /\ callQueries["second"] = 1
    /\ callStart["first"] # callStart["second"]
    /\ heap[jobSetOf["first"]].jobs # heap[jobSetOf["second"]].jobs

\* C28: every poll ends, by returning or by raising, when every status query
\* completes and every sleep lets the clock advance by pollInterval or more.
C28_EveryPollEnds == <>(lpc \in {"returned", "timedout", "failed"})

C28_Witness ==
    /\ lpc = "timedout" /\ lkind = "pollV2Request"
    /\ lnow - lstart > lmaxPollTime

\* no status query has been answered yet: the jobs are those poll was handed
NothingAnswered == \A i \in 1..Len(phist) : phist[i] \notin {"pending", "settled"}

\* C31: a poll that has ended has issued at least one status query, and has
\* returned only on a response; a JobSet that was terminal when poll was
\* invoked is queried like any other.
C31_AlwaysQueriesFirst ==
    /\ PollEnded => queries >= 1
    /\ ppc = "returned" => (Len(phist) >= 1 /\ Last(phist) = "settled")
    /\ (AnyTerminal(jobs) /\ NothingAnswered /\ queries = 0) => ppc \in {"idle", "check"}

C31_Witness ==
    /\ AnyTerminal(jobs) /\ NothingAnswered
    /\ ppc = "thrown" /\ pthrown.kind = "TimeoutError" /\ queries = 2

\* C32: once an invocation has succeeded retryWithBackoff has returned its
\* value: it was invocation attempt + 1, at most maxRetries + 1, one sleep
\* came before each invocation but the first, and no invocation or sleep
\* follows.
C32_SuccessReturnsAtOnce ==
    /\ [](rresult # 0 =>
            /\ rpc = "returned"
            /\ rresult = calls
            /\ calls = attempt + 1
            /\ calls <= maxRetries + 1
            /\ sleeps = calls - 1)
    /\ [](rpc = "returned" => rresult = calls)
    /\ [][rresult # 0 => (calls' = calls /\ sleeps' = sleeps /\ rresult' = rresult)]_vars

C32_Witness ==
    /\ rpc = "returned" /\ rresult = 3 /\ calls = 3 /\ sleeps = 2
    /\ allRetryable /\ lastError.seq = 2 /\ maxRetries = 2

\* C33: a status query is issued only after the submission call has
\* succeeded; when the submission call has failed the operation has raised
\* that failure, has issued no status query and has built no entity.
C33_NoQueryBeforeSubmission ==
    /\ fqueries > 0 => (rpc = "returned" /\ rresult = calls)
    /\ fpc = "polling" => rpc = "returned"
    /\ (fpc # "off" /\ rpc = "thrown") =>
            /\ fpc = "thrown"
            /\ fthrown = rthrown
            /\ fqueries = 0
            /\ entity = NoResponse
            /\ submitted = NoResponse

C33_Witness ==
    /\ op = "generate" /\ fpc = "thrown" /\ rpc = "thrown"
    /\ calls = 3 /\ sleeps = 2 /\ fqueries = 0 /\ fthrown.seq = 3


\* the three module-level variables of the v2 client
Globals == <<globalConfig, globalClient, globalCredentials>>

AllSet == globalConfig # "undefined" /\ globalClient.set /\ globalCredentials.set

AllUnset == globalConfig = "undefined" /\ ~globalClient.set /\ ~globalCredentials.set

\* a step that is a call of createHiggsfieldClient, configure or reset
ApiStep == apiCalls' = apiCalls + 1

\* C34: globalConfig, globalClient and globalCredentials are at all times all
\* set or all unset, whatever createHiggsfieldClient, configure, subscribe and
\* reset calls were made; and a createHiggsfieldClient or configure call that
\* throws (BadInputError, a Config validation Error, BrowserNotSupportedError)
\* leaves the three as they were.
C34_AllSetOrAllUnset ==
    /\ [](AllSet \/ AllUnset)
    /\ [][ApiStep /\ lastCall'.threw # "" => Globals' = Globals]_vars

\* a configure call has failed on malformed credentials after an earlier call
\* had set the three
C34_Witness ==
    /\ apiCalls > 1
    /\ lastCall.op = "configure"
    /\ lastCall.threw = "BadInputError"
    /\ AllSet

\* C35: createHiggsfieldClient(config) called while the singleton is
\* initialised leaves client, config and credentials as they are, and called
\* while it is not initialises it from config; a configure(config) that
\* returns has replaced the client by a new instance and config and
\* credentials by those of its argument, initialised or not.
C35_FirstCreateWins ==
    [][ApiStep =>
        /\ lastCall'.op = "createHiggsfieldClient" /\ AllSet => Globals' = Globals
        /\ lastCall'.op = "createHiggsfieldClient" /\ ~lastCall'.arg.given
              => Globals' = Globals
        /\ /\ \/ lastCall'.op = "configure"
              \/ lastCall'.op = "createHiggsfieldClient" /\ lastCall'.arg.given /\ AllUnset
           /\ lastCall'.threw = ""
           => /\ globalClient'.instance = instances + 1
              /\ globalClient' # globalClient
              /\ globalConfig' = ConfigValue(ConfigFor(lastCall'.arg))
              /\ globalClient'.config = globalConfig'
              /\ globalCredentials' =
                    Credentials(<<lastCall'.arg.credentials[1]>>,
                                <<lastCall'.arg.credentials[2]>>)
              /\ globalClient'.apiKey = globalCredentials'.apiKey
       ]_vars

\* createHiggsfieldClient({credentials: 'id2:secret2', maxPollTime: 60000})
\* was called on a singleton that holds 'id:secret' and the default config,
\* and holds them still
C35_Witness ==
    /\ apiCalls > 1
    /\ lastCall.op = "createHiggsfieldClient"
    /\ lastCall.arg.credentials = <<"id2", "secret2">>
    /\ globalCredentials.apiKey = <<"id">>
    /\ globalConfig = "Config"

\* C36: a subscribe call that has sent its submission uses, at each retry and
\* for its poll, the client and the config it started with, and never goes on
\* with an unset one (which would raise a TypeError).
C36_SubscribeKeepsItsClient ==
    subpc \in {"posting", "backoff", "polling", "returned", "thrown"} /\ Len(subStarted) = 2
        => subUsing = subStarted /\ subThrown # "TypeError"


\* a step in which a status query of pollV2 resolves
PollV2AnswerStep == v2variant = "pollV2" /\ v2pc = "query" /\ v2last' = "response"

\* C37: a status response of pollV2 on a JobSet that has jobs changes the
\* status and the results of the first job and nothing else: the number of
\* jobs, every job's id, every later job and the JobSet's id stay; a response
\* without status makes the first job queued, and one with neither image nor
\* video leaves it without results.
C37_OnlyFirstJobUpdated ==
    [][PollV2AnswerStep /\ Len(v2jobs) > 0 =>
        /\ Len(v2jobs') = Len(v2jobs)
        /\ \A i \in 1..Len(v2jobs) : v2jobs'[i].id = v2jobs[i].id
        /\ \A i \in 2..Len(v2jobs) : v2jobs'[i] = v2jobs[i]
        /\ jobSetId' = jobSetId
        /\ v2jobs'[1].status = (IF v2resp'.status = "" THEN "queued" ELSE v2resp'.status)
        /\ v2resp'.status = "" => v2jobs'[1].status = "queued"
        /\ (Len(v2resp'.images) = 0 /\ ~v2resp'.video.present) => v2jobs'[1].results = NoResults
       ]_vars

\* pollV2 has returned on a JobSet of two jobs: the first is completed and
\* has the image, the second is as it was
C37_Witness ==
    /\ v2variant = "pollV2" /\ v2pc = "returned"
    /\ Len(v2jobs) = 2 /\ Len(v2resp.images) > 0
    /\ v2jobs[1] = Job("req-1", "completed",
                       Results(v2resp.images[1], "image", v2resp.images[1], "image"))
    /\ v2jobs[2] = Job("job-2", "queued", NoResults)
    /\ jobSetId = "req-1"


\* the response has a non-empty images list; it has a video with a url
HasImages(r) == Len(r.images) > 0
HasVideoUrl(r) == r.video.present /\ r.video.url # ""

\* C38: in the normalization of pollV2 a response with a non-empty images
\* list and a video gives the first image in both slots and nothing of the
\* video; the slots are of type video exactly when images is absent or empty
\* and the video has a url; results is null exactly when images is absent or
\* empty and the video is absent or has no url.
C38_ImageBeforeVideo ==
    Normalized =>
        /\ (HasImages(v2resp) /\ v2resp.video.present) =>
                /\ FirstResults =
                      Results(v2resp.images[1], "image", v2resp.images[1], "image")
                /\ VideoUrl \notin {FirstResults.rawUrl, FirstResults.minUrl}
        /\ (FirstResults.rawType = "video" \/ FirstResults.minType = "video")
                <=> (~HasImages(v2resp) /\ HasVideoUrl(v2resp))
        /\ ~HasImages(v2resp) /\ HasVideoUrl(v2resp) =>
                FirstResults = Results(VideoUrl, "video", VideoUrl, "video")
        /\ FirstResults = NoResults <=> (~HasImages(v2resp) /\ ~HasVideoUrl(v2resp))

\* a response that is not final carried one image and a video with a url,
\* and the first job has the image in both slots
C38_Witness ==
    /\ Normalized /\ v2pc = "sleep"
    /\ Len(v2resp.images) = 1 /\ HasVideoUrl(v2resp)
    /\ FirstResults = Results(v2resp.images[1], "image", v2resp.images[1], "image")


\* subscribe was called with polling requested (withPolling true or absent)
PollingRequested == withPolling \in {"absent", "true"}

\* C39: the subscribe that returns the V2Response issues status queries only
\* when polling is requested and the submission response has a request_id;
\* then what it returns is a response whose status is completed, nsfw or
\* failed, got from a status query; when the submission response has no
\* request_id it issues no status query and returns that response unchanged,
\* whatever its status and whatever the flag.
C39_PollsOnlyWithRequestId ==
    op = "subscribe" =>
        /\ (fpc = "polling" \/ fqueries > 0) => (PollingRequested /\ submitted.id # "")
        /\ (fpc = "returned" /\ PollingRequested /\ submitted.id # "") =>
                /\ fqueries >= 1
                /\ entity.status \in {"completed", "nsfw", "failed"}
                /\ entity.id = submitted.id
        /\ (fpc = "returned" /\ submitted.id = "") =>
                /\ fqueries = 0
                /\ entity = submitted
        /\ (fpc = "thrown" /\ fqueries = 0) => rpc = "thrown"

\* subscribe with withPolling: true has returned a submission response
\* that has status queued and no request_id
C39_Witness ==
    /\ op = "subscribe" /\ fpc = "returned" /\ withPolling = "true"
    /\ submitted.id = "" /\ submitted.status = "queued"
    /\ entity = submitted /\ fqueries = 0

=============================================================================
